---- MODULE Spec2Model ----
(***************************************************************************)
(* QR generator (src/components/Generator.tsx): the styled renderer        *)
(* generateQR, its debounce effect, the logo upload path, the              *)
(* error-correction policy and the content templates; the Scanner's        *)
(* scanning loop; the analysis service (analyzeContent) and the            *)
(* ResultModal that calls it; the Scanner's camera; App (histories, local  *)
(* storage, duplicate suppression) and the History view.                   *)
(*                                                                         *)
(* The specifications of the module:                                       *)
(*   SpecGeom  the geometry planner of generateQR as a function of         *)
(*             (moduleCount, qrSize, label, logo), for every QR version;   *)
(*   SpecDraw  the data-module loop of generateQR, cell by cell;           *)
(*   Spec      the component as an event-driven state machine: user edits, *)
(*             FileReader completions, the 300 ms timer, generateQR up to  *)
(*             its await and its continuation after the logo load;         *)
(*   FairSpec  Spec with every image load ending in a load or error event; *)
(*   SpecLogo  the configuration handlers with the correction select, the  *)
(*             logo upload and removal, without the renders;               *)
(*   SpecErr   Spec with a text the encoder rejects, without the label;    *)
(*   SpecTpl   the content forms and the template effect;                  *)
(*   SpecScan  the scanning loop: animation frames, the re-render that     *)
(*             applies a pause, resume and the tab switch;                 *)
(*   SpecAnalyze  analyzeContent as a function of key, content, response;  *)
(*   SpecModal the ResultModal over its mounts, with the calls in flight;  *)
(*   SpecCam   the camera of the Scanner: the start/stop effect, the       *)
(*             100 ms timer and getUserMedia resolving late;               *)
(*   SpecApp   App's scan handlers over a clock: handleScan,               *)
(*             updateScanResult, the result shown;                         *)
(*   SpecStorage  App with its save effects over a local storage with a    *)
(*             quota;                                                      *)
(*   SpecHistory  the History view: filter tabs and the clear dialogue;    *)
(*   SpecDownload  the render pipeline with the Download button and        *)
(*             App's handleGenerate.                                       *)
(***************************************************************************)
EXTENDS Integers, Sequences, FiniteSets, TLC

VARIABLES
    cfg,              \* the state the generateQR closure captures
    reads,            \* FileReader reads in flight (handleLogoUpload)
    timers,           \* pending setTimeout callbacks of the debounce effect
    sinceChange,      \* ms since the last configuration change (saturating)
    runs,             \* generateQR invocations suspended at the await
    canvas,           \* content of the shared canvas (canvasRef)
    generatedBase64,  \* the published image
    started,          \* configurations generateQR was invoked for since the last change
    last,             \* the most recent generateQR step: what it did
    plan,             \* SpecGeom: inputs and planned geometry
    paint,            \* SpecDraw: inputs and the drawModule calls
    tpl,              \* the template effect: template fields and the text it sets
    ai,               \* geminiService: the client and the analyzeContent calls
    modal,            \* ResultModal: the result shown, analyzing, analysis
    scanner,          \* Scanner: the scanning loop, the camera
    app               \* App: histories, the result shown, local storage; History

\* The state outside the Generator's render pipeline
otherVars == <<tpl, ai, modal, scanner, app>>

vars == <<cfg, reads, timers, sinceChange, runs, canvas, generatedBase64, started, last,
          plan, paint, otherVars>>

(***************************************************************************)
(* Exact rational arithmetic.  The code computes in IEEE doubles; every    *)
(* comparison, floor and ceil modelled below is taken at a value that is   *)
(* at least 1/8 away from the rounding boundary (see LogoModuleSize), so   *)
(* the exact value and the double agree on the result.                     *)
(***************************************************************************)
RECURSIVE Gcd(_, _)
Gcd(a, b) == IF b = 0 THEN a ELSE Gcd(b, a % b)

Abs(a) == IF a < 0 THEN -a ELSE a

Rat(n, d) ==
    LET s == IF d < 0 THEN -1 ELSE 1
        g == Gcd(Abs(n), Abs(d))
    IN  [n |-> (s * n) \div g, d |-> (s * d) \div g]

RInt(i) == [n |-> i, d |-> 1]
RAdd(p, q) == Rat(p.n * q.d + q.n * p.d, p.d * q.d)
RSub(p, q) == Rat(p.n * q.d - q.n * p.d, p.d * q.d)
RMul(p, q) == Rat(p.n * q.n, p.d * q.d)
RDiv(p, q) == Rat(p.n * q.d, p.d * q.n)
RLe(p, q) == p.n * q.d <= q.n * p.d
RLt(p, q) == p.n * q.d < q.n * p.d
RFloor(p) == p.n \div p.d
RCeil(p) == -((-p.n) \div p.d)

(***************************************************************************)
(* IEEE 754 double arithmetic (JavaScript numbers), for the one place      *)
(* where the rounding itself is in question: a positive double is          *)
(* [int, frac], its integer part and the bits of its fraction, most        *)
(* significant first, 53 significant bits in all.                          *)
(***************************************************************************)
RECURSIVE Log2Floor(_)
Log2Floor(i) == IF i <= 1 THEN 0 ELSE 1 + Log2Floor(i \div 2)

\* Bit strings are handled 13 bits at a time: the first n bits of the string
\* whose successive 13-bit groups have the values limbs[1], limbs[2], ...
BitsOfLimbs(limbs, n) ==
    [j \in 1..n |-> (limbs[((j - 1) \div 13) + 1] \div 2^(12 - ((j - 1) % 13))) % 2]

\* The value of the 13-bit group bits[from + 1 .. from + 13], bits past the
\* end of the string being 0
RECURSIVE LimbAt(_, _, _)
LimbAt(bits, from, t) ==
    IF t = 0 THEN 0
    ELSE 2 * LimbAt(bits, from, t - 1)
         + (IF from + t <= Len(bits) THEN bits[from + t] ELSE 0)

\* The first 65 bits of the binary expansion of r / d (0 <= r < d < 2^17),
\* by long division, and the remainder left after them
FracBits(r, d) ==
    LET r1 == (r * 8192) % d
        r2 == (r1 * 8192) % d
        r3 == (r2 * 8192) % d
        r4 == (r3 * 8192) % d
    IN  [ bits |-> BitsOfLimbs(<< (r * 8192) \div d, (r1 * 8192) \div d,
                                  (r2 * 8192) \div d, (r3 * 8192) \div d,
                                  (r4 * 8192) \div d >>, 65),
          rem |-> (r4 * 8192) % d ]

\* One unit in the last place more
IncLast(int, frac) ==
    LET zeros == {j \in DOMAIN frac : frac[j] = 0}
    IN  IF zeros = {} THEN [int |-> int + 1, frac |-> [j \in DOMAIN frac |-> 0]]
        ELSE LET k == CHOOSE j \in zeros : \A i \in zeros : i <= j
             IN  [int |-> int,
                  frac |-> [j \in DOMAIN frac |->
                              IF j < k THEN frac[j] ELSE IF j = k THEN 1 ELSE 0]]

\* Round to nearest, ties to even, to 53 significant bits: bits are the
\* fraction bits known exactly, sticky says that more nonzero bits follow
RoundNearestEven(int, bits, sticky) ==
    LET keep == 52 - Log2Floor(int)
        kept == SubSeq(bits, 1, keep)
        guard == IF Len(bits) > keep THEN bits[keep + 1] ELSE 0
        more == sticky \/ \E j \in (keep + 2)..Len(bits) : bits[j] = 1
        odd == IF keep = 0 THEN int % 2 = 1 ELSE kept[keep] = 1
    IN  IF guard = 1 /\ (more \/ odd) THEN IncLast(int, kept)
        ELSE [int |-> int, frac |-> kept]

\* s / d in doubles, for integers s >= d > 0
DoubleDiv(s, d) ==
    LET fb == FracBits(s % d, d)
    IN  RoundNearestEven(s \div d, fb.bits, fb.rem # 0)

\* The exact product of a fraction of at most 52 bits and the integer d < 2^17:
\* the 52 fraction bits of the product and the carry into the integer part
TimesFrac(frac, d) ==
    LET t4 == d * LimbAt(frac, 39, 13)
        t3 == d * LimbAt(frac, 26, 13) + t4 \div 8192
        t2 == d * LimbAt(frac, 13, 13) + t3 \div 8192
        t1 == d * LimbAt(frac, 0, 13) + t2 \div 8192
    IN  [ frac |-> BitsOfLimbs(<<t1 % 8192, t2 % 8192, t3 % 8192, t4 % 8192>>, 52),
          carry |-> t1 \div 8192 ]

\* x * d in doubles, for a double x and an integer d > 0
DoubleTimes(x, d) ==
    LET p == TimesFrac(x.frac, d)
    IN  RoundNearestEven(d * x.int + p.carry, p.frac, FALSE)

\* The double of the integer i > 0
DoubleOf(i) == [int |-> i, frac |-> [j \in 1..(52 - Log2Floor(i)) |-> 0]]

(***************************************************************************)
(* Geometry planner: generateQR, lines 394-447 and 493-529.                *)
(***************************************************************************)
NoLogo == "null"

Margin == 2

LogoSize == 25

\* <input type="range" min="500" max="2000" step="100">
QrSizes == {500 + 100 * k : k \in 0..15}

\* const cellSize = size / (moduleCount + margin * 2)
CellSize(size, moduleCount) == RDiv(RInt(size), RInt(moduleCount + Margin * 2))

\* The same line in the doubles the code computes it in
CellSizeDoubleOneMargin(size, moduleCount) == DoubleDiv(size, moduleCount + Margin)

CellSizeDouble(size, moduleCount) == DoubleDiv(size, moduleCount + Margin * 2)

\* const logoScale = logoSize / 100
LogoScale == Rat(LogoSize, 100)

\* Math.ceil((size * logoScale) / cellSize).  The exact quotient is
\* (moduleCount + 4) / 4 = v + 5.25 for version v, never within 1/4 of an
\* integer, so the double quotient has the same ceiling.
LogoModuleSizeFloor(size, cellSize) ==
    RFloor(RDiv(RMul(RInt(size), LogoScale), cellSize))

LogoModuleSize(size, cellSize) ==
    RCeil(RDiv(RMul(RInt(size), LogoScale), cellSize))

\* logoModuleSize % 2 === 0 ? logoModuleSize + 1 : logoModuleSize
AdjustedSizeEven(logoModuleSize) ==
    IF logoModuleSize % 2 = 1 THEN logoModuleSize + 1 ELSE logoModuleSize

AdjustedSize(logoModuleSize) ==
    IF logoModuleSize % 2 = 0 THEN logoModuleSize + 1 ELSE logoModuleSize

\* const center = moduleCount / 2
CenterFloored(moduleCount) == RInt(moduleCount \div 2)

Center(moduleCount) == Rat(moduleCount, 2)

\* The values generateQR derives from the module count and the captured
\* configuration c, under the names the code gives them.
Geometry(moduleCount, c) ==
    LET size == c.qrSize
        cellSize == CellSize(size, moduleCount)
        scaleFactor == Rat(c.qrSize, 1000)
        renderLabelSize == RMul(RInt(c.labelSize), scaleFactor)
        extraHeight == IF c.labelText # "" THEN RMul(renderLabelSize, Rat(5, 2))
                                           ELSE RInt(0)
        qrOffsetY == IF c.labelText # "" /\ c.labelPosition = "top"
                     THEN extraHeight ELSE RInt(0)
        offset == RMul(RInt(Margin), cellSize)
        center == Center(moduleCount)
        logoModuleSize == LogoModuleSize(size, cellSize)
        adjustedSize == AdjustedSize(logoModuleSize)
        logoSizePx == RMul(RInt(size), LogoScale)
    IN  [ moduleCount |-> moduleCount,
          cellSize    |-> cellSize,
          extraHeight |-> extraHeight,
          totalWidth  |-> RInt(size),
          totalHeight |-> RAdd(RInt(size), extraHeight),
          qrOffsetY   |-> qrOffsetY,
          offset      |-> offset,
          logoStart   |-> IF c.logo # NoLogo
                          THEN RFloor(RSub(center, Rat(adjustedSize, 2))) ELSE -1,
          logoEnd     |-> IF c.logo # NoLogo
                          THEN RCeil(RAdd(center, Rat(adjustedSize, 2))) ELSE -1,
          logoSizePx  |-> logoSizePx,
          logoX       |-> RDiv(RSub(RInt(size), logoSizePx), RInt(2)),
          logoY       |-> RAdd(qrOffsetY, RDiv(RSub(RInt(size), logoSizePx), RInt(2))),
          textX       |-> Rat(size, 2),
          textY       |-> IF c.labelPosition = "top"
                          THEN RDiv(extraHeight, RInt(2))
                          ELSE RAdd(RInt(size), RDiv(extraHeight, RInt(2))) ]

\* x and y of the module at row r, column c (lines 466-467)
ModuleX(g, c) == RAdd(g.offset, RMul(RInt(c), g.cellSize))

ModuleYUnshifted(g, r) == RAdd(g.offset, RMul(RInt(r), g.cellSize))

ModuleY(g, r) == RAdd(RAdd(g.qrOffsetY, g.offset), RMul(RInt(r), g.cellSize))

\* The x and y the three drawFinderPattern calls are given (lines 474-476),
\* in the order of the calls
FinderOrigins(g) ==
    LET far == RMul(RInt(g.moduleCount - 7), g.cellSize)
    IN  << [x |-> g.offset, y |-> RAdd(g.qrOffsetY, g.offset)],
           [x |-> RAdd(g.offset, far), y |-> RAdd(g.qrOffsetY, g.offset)],
           [x |-> g.offset, y |-> RAdd(RAdd(g.qrOffsetY, g.offset), far)] >>

\* QRCode.create yields version v in 1..40 with modules.size = 17 + 4v
ModuleCounts == {17 + 4 * v : v \in 1..40}

\* <input type="range" min="20" max="120"> for the label size: the ends, the
\* initial value, and 21, which gives a band of a fractional height
LabelSizes == {20, 21, 60, 120}

GeomInputs ==
    [ moduleCount : ModuleCounts, qrSize : QrSizes, labelText : {"", "lbl"},
      labelPosition : {"top", "bottom"}, labelSize : LabelSizes,
      logo : {NoLogo, "good"} ]

\* canvas.width = totalWidth; canvas.height = totalHeight: the attributes are
\* unsigned long, the number assigned is truncated to an integer
CanvasDimensionCeil(x) == RCeil(x)

CanvasDimension(x) == RFloor(x)

PlanIdle == [phase |-> "idle"]

\* generateQR's geometry for one input
PlanGeometry ==
    /\ plan.phase = "input"
    /\ plan' = [phase |-> "planned", in |-> plan.in,
                g |-> Geometry(plan.in.moduleCount, plan.in),
                cellSize |-> CellSizeDouble(plan.in.qrSize, plan.in.moduleCount),
                finders |-> FinderOrigins(Geometry(plan.in.moduleCount, plan.in)),
                canvasWidth |-> CanvasDimension(Geometry(plan.in.moduleCount, plan.in).totalWidth),
                canvasHeight |-> CanvasDimension(Geometry(plan.in.moduleCount, plan.in).totalHeight)]
    /\ UNCHANGED <<cfg, reads, timers, sinceChange, runs, canvas, generatedBase64, started, last, paint, otherVars>>


(***************************************************************************)
(* The data-module loop of generateQR, lines 449-471.                      *)
(***************************************************************************)
DotStyles == {"square", "rounded", "dots", "extra-rounded", "classy",
              "classy-inverted", "diamond", "cross"}

\* Largest QR version whose module loop is unrolled cell by cell
MaxDrawVersion == 2

\* modules.get(r, c) of the matrix QRCode.create returns: the three finder
\* patterns (a 7x7 ring around a 3x3 block), the timing row and column, and
\* elsewhere one of the standard's mask patterns.
InFinderBlock(r, c, r0, c0) ==
    /\ r >= r0 /\ r < r0 + 7 /\ c >= c0 /\ c < c0 + 7
    /\ \/ r - r0 \in {0, 6}
       \/ c - c0 \in {0, 6}
       \/ (r - r0 \in 2..4 /\ c - c0 \in 2..4)

InFinderArea(r, c, moduleCount) ==
    \/ (r < 8 /\ c < 8)
    \/ (r < 8 /\ c >= moduleCount - 8)
    \/ (r >= moduleCount - 8 /\ c < 8)

ModulesGet(moduleCount, mask, r, c) ==
    IF InFinderArea(r, c, moduleCount)
    THEN \/ InFinderBlock(r, c, 0, 0)
         \/ InFinderBlock(r, c, 0, moduleCount - 7)
         \/ InFinderBlock(r, c, moduleCount - 7, 0)
    ELSE IF r = 6 THEN c % 2 = 0
    ELSE IF c = 6 THEN r % 2 = 0
    ELSE CASE mask = 0 -> (r + c) % 2 = 0
           [] mask = 1 -> r % 2 = 0
           [] mask = 2 -> c % 3 = 0
           [] OTHER    -> (r + c) % 3 = 0

\* const isFinderPattern = ... (lines 458-461)
IsFinderPatternTwoZones(r, c, moduleCount) ==
    \/ (r < 7 /\ c < 7)
    \/ (r < 7 /\ c >= moduleCount - 7)

IsFinderPattern(r, c, moduleCount) ==
    \/ (r < 7 /\ c < 7)
    \/ (r < 7 /\ c >= moduleCount - 7)
    \/ (r >= moduleCount - 7 /\ c < 7)

\* logo && r >= logoStart && r < logoEnd && c >= logoStart && c < logoEnd
UnderLogoOpenStart(in, g, r, c) ==
    /\ in.logo # NoLogo
    /\ r > g.logoStart /\ r < g.logoEnd
    /\ c > g.logoStart /\ c < g.logoEnd

UnderLogo(in, g, r, c) ==
    /\ in.logo # NoLogo
    /\ r >= g.logoStart /\ r < g.logoEnd
    /\ c >= g.logoStart /\ c < g.logoEnd

\* One iteration of the inner loop body: the drawModule calls it makes
CellCalls(in, g, r, c) ==
    IF UnderLogo(in, g, r, c) THEN <<>>
    ELSE IF IsFinderPattern(r, c, g.moduleCount) THEN <<>>
    ELSE IF ModulesGet(g.moduleCount, in.mask, r, c)
         THEN << [r |-> r, c |-> c, style |-> in.dotStyle] >>
         ELSE <<>>

\* for (let c = 0; c < moduleCount; c++)
RECURSIVE RowCalls(_, _, _, _)
RowCalls(in, g, r, c) ==
    IF c >= g.moduleCount THEN <<>>
    ELSE CellCalls(in, g, r, c) \o RowCalls(in, g, r, c + 1)

\* for (let r = 0; r < moduleCount; r++)
RECURSIVE LoopCalls(_, _, _)
LoopCalls(in, g, r) ==
    IF r >= g.moduleCount THEN <<>>
    ELSE RowCalls(in, g, r, 0) \o LoopCalls(in, g, r + 1)

\* What one render calls on the canvas, in program order (lines 419-534), for
\* a logo that loads: the background, the module loop, the three finder
\* patterns, the logo, the label, the read-out of the canvas
ModuleSteps(in, g) ==
    LET calls == LoopCalls(in, g, 0)
    IN  [k \in 1..Len(calls) |->
            [op |-> "drawModule", r |-> calls[k].r, c |-> calls[k].c]]

FinderSteps(g) ==
    [k \in 1..3 |-> [op |-> "drawFinderPattern", x |-> FinderOrigins(g)[k].x,
                                                  y |-> FinderOrigins(g)[k].y]]

TailSteps(in) ==
    (IF in.logo # NoLogo THEN << [op |-> "drawImage"] >> ELSE <<>>)
    \o (IF in.labelText # "" THEN << [op |-> "fillText"] >> ELSE <<>>)
    \o << [op |-> "toDataURL"] >>

RenderStepsFindersFirst(in, g) ==
    << [op |-> "fillRect"] >> \o FinderSteps(g) \o ModuleSteps(in, g) \o TailSteps(in)

RenderSteps(in, g) ==
    << [op |-> "fillRect"] >> \o ModuleSteps(in, g) \o FinderSteps(g) \o TailSteps(in)

DrawInputs ==
    [ version : 1..MaxDrawVersion, mask : 0..3, qrSize : {1000},
      labelText : {"", "lbl"}, labelPosition : {"top", "bottom"},
      labelSize : {60}, logo : {NoLogo, "good"}, dotStyle : DotStyles ]

PaintIdle == [phase |-> "idle"]

\* generateQR from the geometry on: the drawModule calls of the module loop
\* and the canvas calls of the whole render
PaintModules ==
    /\ paint.phase = "input"
    /\ LET g == Geometry(17 + 4 * paint.in.version, paint.in)
       IN  paint' = [phase |-> "painted", in |-> paint.in, g |-> g,
                     calls |-> LoopCalls(paint.in, g, 0),
                     steps |-> RenderSteps(paint.in, g)]
    /\ UNCHANGED <<cfg, reads, timers, sinceChange, runs, canvas, generatedBase64, started, last, plan, otherVars>>


(***************************************************************************)
(* The Generator component as a state machine.                             *)
(***************************************************************************)
Levels == {"L", "M", "Q", "H"}

\* What the user types: "" is the initial text, "a" is one byte.
Texts == {"", "a"}

\* A file the user picks: one the browser decodes as an image, one it does not
\* (accept="image/*" is a hint to the file dialog, not a check).
Files == {"good", "bad"}

Labels == {"", "lbl"}

DebounceMs == 300

\* Granularity of the model's clock, in ms
TickMs == 150

\* Pending FileReader reads the model follows at once
MaxReads == 1

\* generateQR invocations suspended at the await that the model follows at once
MaxRuns == 1

\* "long" stands for a text of 2900 bytes, which only version 40 at level L holds
ByteLength(text) ==
    CASE text = "" -> 0 [] text = "a" -> 1 [] OTHER -> 2900

\* Byte-mode capacity of the versions the modelled texts select
Capacity(version, level) ==
    IF version = 1
    THEN CASE level = "L" -> 17 [] level = "M" -> 14 [] level = "Q" -> 11 [] OTHER -> 7
    ELSE CASE level = "L" -> 2953 [] level = "M" -> 2331 [] level = "Q" -> 1663
           [] OTHER -> 1273

\* QRCode.create(text, {errorCorrectionLevel}): the smallest version that holds
\* the text; it throws on an empty text and on a text no version holds.
QRCreate(text, level) ==
    IF ByteLength(text) = 0 THEN [ok |-> FALSE, moduleCount |-> 0]
    ELSE IF ByteLength(text) <= Capacity(1, level) THEN [ok |-> TRUE, moduleCount |-> 21]
    ELSE IF ByteLength(text) <= Capacity(40, level) THEN [ok |-> TRUE, moduleCount |-> 177]
    ELSE [ok |-> FALSE, moduleCount |-> 0]

\* if (!text)
TextMissingNever(text) == FALSE

TextMissing(text) == text = ""

\* setGeneratedBase64('')
EmptyImage ==
    [ kind |-> "empty", text |-> "", level |-> "", moduleCount |-> 0,
      zone |-> FALSE, band |-> FALSE, logo |-> NoLogo, label |-> "" ]

\* The canvas element before anything is painted on it
BlankCanvas == [EmptyImage EXCEPT !.kind = "blank"]

\* The canvas after lines 413-476 for configuration c: sized (with the label
\* band when there is a label), filled, the data modules of QRCode.create's
\* matrix drawn outside the logo zone, the three finder patterns drawn.
PaintBase(c) ==
    [ kind |-> "png", text |-> c.text, level |-> c.errorLevel,
      moduleCount |-> QRCreate(c.text, c.errorLevel).moduleCount,
      zone |-> c.logo # NoLogo, band |-> c.labelText # "",
      logo |-> NoLogo, label |-> "" ]

\* ctx.drawImage(logoImg, ...) of a loaded image, on the canvas as it is
DrawLogo(cv, c) == [cv EXCEPT !.logo = c.logo]

\* if (labelText) { ... ctx.fillText(labelText, textX, textY) }
DrawLabel(cv, c) == IF c.labelText # "" THEN [cv EXCEPT !.label = c.labelText] ELSE cv

\* The paint steps before the await, in order (lines 387-476)
SyncOpsLabelFirst(c) ==
    <<"create", "fillRect", "modules", "finder", "finder", "finder">>
    \o (IF c.labelText # "" THEN <<"fillText">> ELSE <<>>)

SyncOps(c) == <<"create", "fillRect", "modules", "finder", "finder", "finder">>

\* The steps from the label to the publication (lines 516-534):
\* setGeneratedBase64(canvas.toDataURL('image/png'))
TailOps(c) ==
    (IF c.labelText # "" THEN <<"fillText">> ELSE <<>>)
    \o <<"toDataURL", "setGeneratedBase64">>

FreeRun == [state |-> "free"]

RunSlots == 1..MaxRuns

FreeSlots == {i \in RunSlots : runs[i].state = "free"}

Min(S) == CHOOSE x \in S : \A y \in S : x <= y

RemoveAt(seq, i) == [j \in 1..(Len(seq) - 1) |-> IF j < i THEN seq[j] ELSE seq[j + 1]]

\* return () => clearTimeout(timer): the effect's cleanup removes the timer the
\* effect created, if it is still pending
ClearTimeoutNoop(ts) == ts

ClearTimeout(ts) == SelectSeq(ts, LAMBDA t : ~t.own)

\* setTimeout(() => generateQR(), 300), generateQR being the closure over c
SetTimeout(ts, c) ==
    Append([i \in DOMAIN ts |-> [ts[i] EXCEPT !.own = FALSE]],
           [cfg |-> c, left |-> DebounceMs, own |-> TRUE])

\* A state update to configuration c.  React re-renders only when a value
\* changed; then generateQR is a new closure and the effect of lines 541-546
\* runs its cleanup and sets a new timer.
Commit(c) ==
    /\ cfg' = c
    /\ IF c = cfg
       THEN UNCHANGED <<timers, sinceChange, started>>
       ELSE /\ timers' = SetTimeout(ClearTimeout(timers), c)
            /\ sinceChange' = 0
            /\ started' = <<>>


\* The textarea of the 'text' content type: setText(e.target.value)
SetText(t) ==
    /\ t # cfg.text
    /\ Commit([cfg EXCEPT !.text = t])
    /\ UNCHANGED <<reads, runs, canvas, generatedBase64, last, plan, paint, otherVars>>

\* The correction <select>, disabled={!!logo}: setErrorLevel(e.target.value)
SetErrorLevel(l) ==
    /\ cfg.logo = NoLogo
    /\ l # cfg.errorLevel
    /\ Commit([cfg EXCEPT !.errorLevel = l])
    /\ UNCHANGED <<reads, runs, canvas, generatedBase64, last, plan, paint, otherVars>>

\* setLabelText(e.target.value)
SetLabelText(t) ==
    /\ t # cfg.labelText
    /\ Commit([cfg EXCEPT !.labelText = t])
    /\ UNCHANGED <<reads, runs, canvas, generatedBase64, last, plan, paint, otherVars>>

\* handleLogoUpload: reader.readAsDataURL(file); reader.onload closes over the
\* errorLevel of the render in which the handler was created
HandleLogoUpload(f) ==
    /\ Len(reads) < MaxReads
    /\ reads' = Append(reads, [file |-> f, errorLevel |-> cfg.errorLevel])
    /\ UNCHANGED <<cfg, timers, sinceChange, runs, canvas, generatedBase64, started,
                   last, plan, paint, otherVars>>

\* if (errorLevel === 'L' || errorLevel === 'M') setErrorLevel('H'), errorLevel
\* being the value the onload closure holds
LevelAfterUpload(captured, current) ==
    IF captured \in {"L", "M"} THEN "H" ELSE current

\* reader.onload: setLogo(result) and the upgrade of the level
ReaderOnload(i) ==
    /\ i \in DOMAIN reads
    /\ reads' = RemoveAt(reads, i)
    /\ Commit([cfg EXCEPT !.logo = reads[i].file,
                          !.errorLevel = LevelAfterUpload(reads[i].errorLevel, @)])
    /\ UNCHANGED <<runs, canvas, generatedBase64, last, plan, paint, otherVars>>

\* The remove button: setLogo(null); setErrorLevel('M')
RemoveLogo ==
    /\ cfg.logo # NoLogo
    /\ Commit([cfg EXCEPT !.logo = NoLogo, !.errorLevel = "M"])
    /\ UNCHANGED <<reads, runs, canvas, generatedBase64, last, plan, paint, otherVars>>

\* Time passes
Tick ==
    /\ \/ sinceChange < DebounceMs
       \/ \E i \in DOMAIN timers : timers[i].left > 0
    /\ sinceChange' = IF sinceChange + TickMs > DebounceMs THEN DebounceMs
                      ELSE sinceChange + TickMs
    /\ timers' = [i \in DOMAIN timers |->
                    [timers[i] EXCEPT !.left = IF @ > TickMs THEN @ - TickMs ELSE 0]]
    /\ UNCHANGED <<cfg, reads, runs, canvas, generatedBase64, started, last, plan, paint, otherVars>>

\* What the code after the await reads of the configuration the closure
\* captured: the logo (through logoImg) and the label
Captured(c) == [logo |-> c.logo, labelText |-> c.labelText]

\* catch (err) { console.error("QR Generation failed", err) }: what the catch
\* block makes of the published image
CatchBlockClearsImage(image) == EmptyImage

CatchBlock(image) == image

\* generateQR from the await on (lines 493-534), for the run that captured r
\* and has done ops so far, on the canvas cv as it is now.  The image has
\* loaded (outcome "load"), or it failed and drawImage throws on the broken
\* image ("throw", the HTML Standard's InvalidStateError) or draws nothing
\* ("skip", browsers that ignore a broken image).
Continue(r, ops, cv, outcome) ==
    IF outcome = "throw"
    THEN /\ last' = [kind |-> "resume", logo |-> TRUE, ops |-> ops \o <<"catch">>,
                     load |-> "error", error |-> TRUE]
         /\ generatedBase64' = CatchBlock(generatedBase64)
         /\ UNCHANGED canvas
    ELSE LET drawn == IF outcome = "load" THEN DrawLogo(cv, r) ELSE cv
             final == DrawLabel(drawn, r)
         IN  /\ canvas' = final
             /\ generatedBase64' = final
             /\ last' = [kind |-> "resume", logo |-> TRUE,
                         ops |-> ops \o <<"drawImage">> \o TailOps(r),
                         load |-> IF outcome = "load" THEN "load" ELSE "error",
                         error |-> FALSE]

\* generateQR up to its first suspension (lines 380-491), as invoked by the
\* timer with the configuration c its closure holds.  canvasRef.current and
\* getContext('2d') are never null once the component is mounted.
GenerateQR(c) ==
    IF TextMissing(c.text)
    THEN /\ generatedBase64' = EmptyImage
         /\ last' = [kind |-> "start", logo |-> c.logo # NoLogo,
                     ops |-> <<"setGeneratedBase64">>, load |-> "none", error |-> FALSE]
         /\ UNCHANGED <<runs, canvas>>
    ELSE IF ~QRCreate(c.text, c.errorLevel).ok
    THEN /\ last' = [kind |-> "start", logo |-> c.logo # NoLogo,
                     ops |-> <<"create", "catch">>, load |-> "none", error |-> TRUE]
         /\ generatedBase64' = CatchBlock(generatedBase64)
         /\ UNCHANGED <<runs, canvas>>
    ELSE IF c.logo = NoLogo
    THEN /\ canvas' = DrawLabel(PaintBase(c), c)
         /\ generatedBase64' = canvas'
         /\ last' = [kind |-> "start", logo |-> FALSE,
                     ops |-> SyncOps(c) \o TailOps(c), load |-> "none", error |-> FALSE]
         /\ UNCHANGED runs
    ELSE \/ \* logoImg.complete: resolve(true) at once, the rest in a microtask
            /\ c.logo = "good"
            /\ Continue(Captured(c), SyncOps(c) \o <<"resolve", "await">>,
                        PaintBase(c), "load")
            /\ UNCHANGED runs
         \/ \* suspended until onload or onerror resolves the promise
            /\ FreeSlots # {}
            /\ runs' = [runs EXCEPT ![Min(FreeSlots)] =
                          [state |-> "awaiting", cfg |-> Captured(c),
                           ops |-> SyncOps(c) \o <<"await">>]]
            /\ canvas' = PaintBase(c)
            /\ last' = [kind |-> "start", logo |-> TRUE,
                        ops |-> SyncOps(c) \o <<"await">>, load |-> "none",
                        error |-> FALSE]
            /\ UNCHANGED generatedBase64

\* The debounce timer fires: generateQR()
TimerFire(i) ==
    /\ i \in DOMAIN timers
    /\ timers[i].left = 0
    /\ timers' = RemoveAt(timers, i)
    /\ started' = Append(started, timers[i].cfg)
    /\ GenerateQR(timers[i].cfg)
    /\ UNCHANGED <<cfg, reads, sinceChange, plan, paint, otherVars>>

\* What the load of the data URL of a file ends with
LoadOutcomes(file) == IF file = "good" THEN {"load"} ELSE {"throw", "skip"}

\* logoImg.onload / logoImg.onerror of run i: resolve, and the continuation
LoadResolve(i) ==
    /\ runs[i].state = "awaiting"
    /\ \E outcome \in LoadOutcomes(runs[i].cfg.logo) :
          Continue(runs[i].cfg, runs[i].ops \o <<"resolve">>, canvas, outcome)
    /\ runs' = [runs EXCEPT ![i] = FreeRun]
    /\ UNCHANGED <<cfg, reads, timers, sinceChange, started, plan, paint, otherVars>>

\* The last step a render took: the start of generateQR (up to its return or
\* its suspension) or its resumption after the await.  logo: the render's
\* closure holds a logo; ops: what that render has done so far, in order;
\* load: how its image load ended; error: it ended in the catch block.
\* The other components before anything happens in them
TplIdle == [phase |-> "idle"]
AiIdle == [phase |-> "idle"]
ModalIdle == [phase |-> "idle"]
ScannerIdle == [phase |-> "idle"]
AppIdle == [phase |-> "idle"]

OthersIdle ==
    /\ tpl = TplIdle
    /\ ai = AiIdle
    /\ modal = ModalIdle
    /\ scanner = ScannerIdle
    /\ app = AppIdle

(***************************************************************************)
(* geminiService: getApiKey, the client, analyzeContent.                   *)
(***************************************************************************)
\* process.env.API_KEY as getApiKey returns it: '' when it is not set
ApiKeys == {"", "key"}

\* const ai = apiKey ? new GoogleGenAI({ apiKey }) : null
Client(apiKey) == IF apiKey # "" THEN "client" ELSE "null"

\* export const isAiAvailable = () => !!ai
IsAiAvailable(apiKey) == Client(apiKey) # "null"

\* What the service call can end with: the promise rejects (network error,
\* quota, bad key), or it resolves to a response whose text is undefined,
\* empty, not JSON, the JSON null, JSON of another shape than the analysis,
\* an analysis object without its actions, or a complete analysis
ResponseTexts == {"undefined", "", "<html>", "null", "{}", "[]", "\"ok\"",
                  "{summary,safetyRating,category}",
                  "{summary,safetyRating,category,actions}"}

Responses == {[kind |-> "reject", text |-> "undefined"]}
             \cup [kind : {"resolve"}, text : ResponseTexts]

JsNull == [type |-> "null", fields |-> {}]

\* JSON.parse(text): throws a SyntaxError on a text that is not JSON
JSONParse(text) ==
    CASE text = "null" -> [ok |-> TRUE, value |-> JsNull]
      [] text = "{}" -> [ok |-> TRUE, value |-> [type |-> "object", fields |-> {}]]
      [] text = "[]" -> [ok |-> TRUE, value |-> [type |-> "array", fields |-> {}]]
      [] text = "\"ok\"" -> [ok |-> TRUE, value |-> [type |-> "string", fields |-> {}]]
      [] text = "{summary,safetyRating,category}" ->
            [ok |-> TRUE, value |-> [type |-> "object",
                                     fields |-> {"summary", "safetyRating", "category"}]]
      [] text = "{summary,safetyRating,category,actions}" ->
            [ok |-> TRUE, value |-> [type |-> "object",
                                     fields |-> {"summary", "safetyRating", "category",
                                                 "actions"}]]
      [] OTHER -> [ok |-> FALSE, value |-> JsNull]

\* aiData.summary is a non-empty string
WellFormedFields(v) == v.type = "object" /\ "summary" \in v.fields

\* The promise analyzeContent returns: resolved with a value, or rejected
Resolved(v) == [rejected |-> FALSE, value |-> v]

\* analyzeContent(content) for the client made from apiKey, the service call
\* ending with response
AnalyzeContent(apiKey, content, response) ==
    IF Client(apiKey) = "null" THEN Resolved(JsNull)
    ELSE IF response.kind = "reject" THEN Resolved(JsNull)
    ELSE IF response.text \in {"undefined", ""} THEN Resolved(JsNull)
    ELSE IF ~JSONParse(response.text).ok THEN Resolved(JsNull)
    ELSE Resolved(JSONParse(response.text).value)

Contents == {"https://example.com", "WIFI:T:WPA;S:Home;P:secret1;H:false;;", "hello"}

AnalyzeInputs == [apiKey : ApiKeys, content : Contents, response : Responses]

\* One call of analyzeContent
AnalyzeContentCall ==
    /\ ai.phase = "input"
    /\ ai' = [phase |-> "returned", in |-> ai.in,
               out |-> AnalyzeContent(ai.in.apiKey, ai.in.content, ai.in.response)]
    /\ UNCHANGED <<cfg, reads, timers, sinceChange, runs, canvas, generatedBase64, started,
                   last, plan, paint, tpl, modal, scanner, app>>

(***************************************************************************)
(* ResultModal, mounted by App while currentResult is not null.            *)
(***************************************************************************)
\* Mounts of the modal the model follows
MaxMounts == 3

\* analyzeContent calls in flight the model follows at once
MaxCalls == 2

NoResult == [id |-> "null", aiSummary |-> FALSE]

\* The scan results App can show: two scans, with or without an AI summary
ScanResults == [id : {"r1", "r2"}, aiSummary : BOOLEAN]

\* The modal of App: not mounted (currentResult is null)
ModalClosed(mounts) ==
    [result |-> NoResult, mounts |-> mounts, analyzing |-> FALSE, analysis |-> JsNull]

\* disabled={analyzing}
AnalyzeDisabledNever(m) == FALSE

AnalyzeDisabled(m) == m.analyzing

\* The 'Run AI Analysis' button is rendered: !result.aiSummary && !analysis,
\* and aiAvailable
AnalyzeButtonShown(m, apiKey) ==
    /\ m.result # NoResult
    /\ ~m.result.aiSummary
    /\ m.analysis = JsNull
    /\ IsAiAvailable(apiKey)

\* App shows a result: setCurrentResult(r).  With no modal mounted this
\* mounts one (analyzing false, analysis null); on a mounted modal the effect
\* of lines 19-27 resets the analysis.
ShowResult(r) ==
    /\ r # modal.result
    /\ IF modal.result = NoResult
       THEN /\ modal.mounts < MaxMounts
            /\ modal' = [result |-> r, mounts |-> modal.mounts + 1,
                          analyzing |-> FALSE, analysis |-> JsNull]
       ELSE modal' = [modal EXCEPT !.result = r, !.analysis = JsNull]
    /\ UNCHANGED <<cfg, reads, timers, sinceChange, runs, canvas, generatedBase64, started,
                   last, plan, paint, tpl, ai, scanner, app>>

\* onClose: setCurrentResult(null) unmounts the modal and drops its state
CloseModal ==
    /\ modal.result # NoResult
    /\ modal' = ModalClosed(modal.mounts)
    /\ UNCHANGED <<cfg, reads, timers, sinceChange, runs, canvas, generatedBase64, started,
                   last, plan, paint, tpl, ai, scanner, app>>

\* A click on the button: handleAnalyze up to its await
HandleAnalyze ==
    /\ AnalyzeButtonShown(modal, ai.apiKey)
    /\ ~AnalyzeDisabled(modal)
    /\ modal.result # NoResult /\ IsAiAvailable(ai.apiKey)
    /\ Len(ai.calls) < MaxCalls
    /\ modal' = [modal EXCEPT !.analyzing = TRUE]
    /\ ai' = [ai EXCEPT !.calls = Append(@, [mount |-> modal.mounts,
                                             result |-> modal.result])]
    /\ UNCHANGED <<cfg, reads, timers, sinceChange, runs, canvas, generatedBase64, started,
                   last, plan, paint, tpl, scanner, app>>

\* The service call of ai.calls[i] ends with response: handleAnalyze from its
\* await on.  The state updates reach the modal that made the call if it is
\* still mounted; onUpdate is App's updateScanResult, which sets
\* currentResult to the updated result: a new object, so that the effect of
\* lines 19-27 of the mounted modal runs and sets the analysis to null again.
AnalyzeReturns(i, response) ==
    /\ i \in DOMAIN ai.calls
    /\ LET call == ai.calls[i]
           aiData == AnalyzeContent(ai.apiKey, call.result.id, response).value
           mounted == modal.result # NoResult /\ modal.mounts = call.mount
           updated == [call.result EXCEPT !.aiSummary = WellFormedFields(aiData)]
       IN  /\ ai' = [ai EXCEPT !.calls = RemoveAt(@, i)]
           /\ IF aiData = JsNull
              THEN modal' = IF mounted THEN [modal EXCEPT !.analyzing = FALSE] ELSE modal
              ELSE IF mounted
              THEN modal' = [modal EXCEPT !.analyzing = FALSE, !.analysis = JsNull,
                                          !.result = updated]
              ELSE IF modal.result # NoResult
              THEN modal' = [modal EXCEPT !.result = updated, !.analysis = JsNull]
              ELSE /\ modal.mounts < MaxMounts
                   /\ modal' = [result |-> updated, mounts |-> modal.mounts + 1,
                                 analyzing |-> FALSE, analysis |-> JsNull]
    /\ UNCHANGED <<cfg, reads, timers, sinceChange, runs, canvas, generatedBase64, started,
                   last, plan, paint, tpl, scanner, app>>

NoRun ==
    [kind |-> "none", logo |-> FALSE, ops |-> <<>>, load |-> "none", error |-> FALSE]

InitCfg ==
    [ text |-> "", errorLevel |-> "M", logo |-> NoLogo, labelText |-> "" ]

\* The state after the mount: the effect has set the first timer
Init ==
    /\ cfg = InitCfg
    /\ reads = <<>>
    /\ timers = SetTimeout(<<>>, InitCfg)
    /\ sinceChange = 0
    /\ runs = [i \in RunSlots |-> FreeRun]
    /\ canvas = BlankCanvas
    /\ generatedBase64 = EmptyImage
    /\ started = <<>>
    /\ last = NoRun
    /\ plan = PlanIdle
    /\ paint = PaintIdle
    /\ OthersIdle

\* The render pipeline: every handler but the correction select, which
\* SpecLogo follows
Next ==
    \/ \E t \in Texts : SetText(t)
    \/ \E t \in Labels : SetLabelText(t)
    \/ \E f \in Files : HandleLogoUpload(f)
    \/ \E i \in 1..MaxReads : ReaderOnload(i)
    \/ RemoveLogo
    \/ Tick
    \/ \E i \in 1..(MaxRuns + 1) : TimerFire(i)
    \/ \E i \in RunSlots : LoadResolve(i)

Spec == Init /\ [][Next]_vars

\* The browser ends every image load with a load or an error event
FairSpec == Spec /\ \A i \in RunSlots : WF_vars(LoadResolve(i))

\* The configuration handlers, the logo upload and the correction policy,
\* up to the moment a timer fires
NextLogo ==
    \/ \E t \in Texts : SetText(t)
    \/ \E l \in Levels : SetErrorLevel(l)
    \/ \E t \in Labels : SetLabelText(t)
    \/ \E f \in Files : HandleLogoUpload(f)
    \/ \E i \in 1..MaxReads : ReaderOnload(i)
    \/ RemoveLogo
    \/ Tick

SpecLogo == Init /\ [][NextLogo]_vars

\* The render pipeline on the inputs that make a render fail: a text no QR
\* version holds at the level in force, a logo file that is not an image
NextErr ==
    \/ \E t \in Texts \cup {"long"} : SetText(t)
    \/ \E f \in Files : HandleLogoUpload(f)
    \/ \E i \in 1..MaxReads : ReaderOnload(i)
    \/ RemoveLogo
    \/ Tick
    \/ \E i \in 1..(MaxRuns + 1) : TimerFire(i)
    \/ \E i \in RunSlots : LoadResolve(i)

SpecErr == Init /\ [][NextErr]_vars

InitGeom ==
    /\ cfg = InitCfg
    /\ reads = <<>>
    /\ timers = <<>>
    /\ sinceChange = 0
    /\ runs = [i \in RunSlots |-> FreeRun]
    /\ canvas = BlankCanvas
    /\ generatedBase64 = EmptyImage
    /\ started = <<>>
    /\ last = NoRun
    /\ plan \in [phase : {"input"}, in : GeomInputs]
    /\ paint = PaintIdle
    /\ OthersIdle

SpecGeom == InitGeom /\ [][PlanGeometry]_vars

InitDraw ==
    /\ cfg = InitCfg
    /\ reads = <<>>
    /\ timers = <<>>
    /\ sinceChange = 0
    /\ runs = [i \in RunSlots |-> FreeRun]
    /\ canvas = BlankCanvas
    /\ generatedBase64 = EmptyImage
    /\ started = <<>>
    /\ last = NoRun
    /\ plan = PlanIdle
    /\ paint \in [phase : {"input"}, in : DrawInputs]
    /\ OthersIdle

SpecDraw == InitDraw /\ [][PaintModules]_vars

(***************************************************************************)
(* The content templates (Generator.tsx, the template effect).  A string   *)
(* is the sequence of its characters, a template literal the              *)
(* concatenation of its pieces.                                            *)
(***************************************************************************)
ContentTypes == {"text", "url", "wifi", "email", "vcard"}

\* What the user types or selects in the fields of the forms
EmptyString == <<>>
PlainTexts == {EmptyString, <<"a", "b", "c">>}
UrlValues == {EmptyString, <<"h", "t", "t", "p", "s", ":", "/", "/", "a", ".", "b">>}
Ssids == {EmptyString, <<"H", "o", "m", "e">>, <<"H", ";", "x">>}
Passwords == {EmptyString, <<"s", "e", "c", "r", "e", "t", "1">>}
Encryptions == {<<"W", "P", "A">>, <<"W", "E", "P">>, <<"n", "o", "p", "a", "s", "s">>}
EmailAddresses == {EmptyString, <<"a", "@", "b", ".", "c", "o", "m">>}
VcardFields == {"firstName", "lastName", "phone", "email", "org", "title", "url"}
VcardValues == {EmptyString, <<"x">>}

\* The fields the contact form has, of the seven of vcardData
VcardTyped == {"firstName", "lastName", "phone"}

\* useState initial values, lines 26-52
InitWifiData ==
    [ssid |-> EmptyString, password |-> EmptyString, encryption |-> <<"W", "P", "A">>,
     hidden |-> FALSE]

InitEmailData == [email |-> EmptyString, subject |-> EmptyString, body |-> EmptyString]

InitVcardData == [f \in VcardFields |-> EmptyString]

TplMounted ==
    [phase |-> "mounted", contentType |-> "text", text |-> EmptyString,
     urlValue |-> EmptyString, wifiData |-> InitWifiData,
     emailData |-> InitEmailData, vcardData |-> InitVcardData]

\* encodeURIComponent: the unreserved characters stay, every other character
\* becomes the percent-encoding of its UTF-8 bytes; a lone surrogate makes it
\* throw a URIError.
Unreserved ==
    {"a", "b", "c", "d", "e", "f", "g", "h", "i", "j", "k", "l", "m", "n", "o",
     "p", "q", "r", "s", "t", "u", "v", "w", "x", "y", "z", "H", "W", "P", "A",
     "E", "0", "1", "2", "3", "4", "5", "6", "7", "8", "9",
     "-", "_", ".", "!", "~", "*", "'", "(", ")"}

LoneSurrogate == "U+D800"

PercentEncoded(c) ==
    CASE c = " " -> <<"%", "2", "0">>
      [] c = "@" -> <<"%", "4", "0">>
      [] c = ":" -> <<"%", "3", "A">>
      [] c = "/" -> <<"%", "2", "F">>
      [] c = ";" -> <<"%", "3", "B">>
      [] c = "?" -> <<"%", "3", "F">>
      [] c = "&" -> <<"%", "2", "6">>
      [] c = "=" -> <<"%", "3", "D">>

RECURSIVE EncodeURIComponent(_)
EncodeURIComponent(s) ==
    IF s = EmptyString THEN EmptyString
    ELSE (IF Head(s) \in Unreserved THEN <<Head(s)>> ELSE PercentEncoded(Head(s)))
             \o EncodeURIComponent(Tail(s))

Throws(s) == \E i \in DOMAIN s : s[i] = LoneSurrogate

\* `${hidden}` of a boolean
BooleanText(b) == IF b THEN <<"t", "r", "u", "e">> ELSE <<"f", "a", "l", "s", "e">>

\* Lines 122-128
WifiEncAsIs(encryption) == encryption
WifiEnc(encryption) == IF encryption = <<"n", "o", "p", "a", "s", "s">> THEN EmptyString ELSE encryption

WifiTemplate(w) ==
    IF w.ssid # EmptyString
    THEN <<"W", "I", "F", "I", ":", "T", ":">> \o WifiEnc(w.encryption) \o <<";", "S", ":">> \o w.ssid
             \o <<";", "P", ":">> \o w.password \o <<";", "H", ":">> \o BooleanText(w.hidden) \o <<";", ";">>
    ELSE EmptyString

\* Lines 129-134
EmailAddressEncoded(email) == EncodeURIComponent(email)
EmailAddress(email) == email

EmailTemplate(e) ==
    IF e.email # EmptyString
    THEN <<"m", "a", "i", "l", "t", "o", ":">> \o EmailAddress(e.email)
             \o <<"?", "s", "u", "b", "j", "e", "c", "t", "=">> \o EncodeURIComponent(e.subject)
             \o <<"&", "b", "o", "d", "y", "=">> \o EncodeURIComponent(e.body)
    ELSE EmptyString

\* Lines 135-140
VcardTemplate(v) ==
    IF \E f \in {"firstName", "lastName", "email", "phone"} : v[f] # EmptyString
    THEN <<"B", "E", "G", "I", "N", ":", "V", "C", "A", "R", "D", "\n", "V", "E", "R", "S", "I", "O", "N", ":", "3", ".", "0", "\n", "N", ":">> \o v.lastName \o <<";">> \o v.firstName
             \o <<";", ";", ";", "\n", "F", "N", ":">> \o v.firstName \o <<" ">> \o v.lastName
             \o <<"\n", "O", "R", "G", ":">> \o v.org
             \o <<"\n", "T", "I", "T", "L", "E", ":">> \o v.title
             \o <<"\n", "T", "E", "L", ":">> \o v.phone
             \o <<"\n", "E", "M", "A", "I", "L", ":">> \o v.email
             \o <<"\n", "U", "R", "L", ":">> \o v.url
             \o <<"\n", "E", "N", "D", ":", "V", "C", "A", "R", "D">>
    ELSE EmptyString

\* The template effect, lines 113-143, run with the state t: for the content
\* type text it returns at once; when encodeURIComponent throws, the effect
\* ends before its setText and the component tree is unmounted.
TemplateEffect(t) ==
    CASE t.contentType = "text" -> t
      [] t.contentType = "url" -> [t EXCEPT !.text = t.urlValue]
      [] t.contentType = "wifi" -> [t EXCEPT !.text = WifiTemplate(t.wifiData)]
      [] t.contentType = "email" ->
            IF t.emailData.email # EmptyString
                   /\ (Throws(t.emailData.subject) \/ Throws(t.emailData.body))
            THEN [t EXCEPT !.phase = "crashed"]
            ELSE [t EXCEPT !.text = EmailTemplate(t.emailData)]
      [] t.contentType = "vcard" -> [t EXCEPT !.text = VcardTemplate(t.vcardData)]

tplOthers ==
    <<cfg, reads, timers, sinceChange, runs, canvas, generatedBase64, started,
      last, plan, paint, ai, modal, scanner, app>>

\* Line 703: a content type button; the effect runs when the type changed
SetContentType(type) ==
    /\ tpl.phase = "mounted"
    /\ tpl' = IF type = tpl.contentType THEN tpl
              ELSE TemplateEffect([tpl EXCEPT !.contentType = type])
    /\ UNCHANGED tplOthers

\* Line 723: the textarea of the content type text; text is no dependency
\* of the effect
TypeText(value) ==
    /\ tpl.phase = "mounted"
    /\ tpl.contentType = "text"
    /\ tpl' = [tpl EXCEPT !.text = value]
    /\ UNCHANGED tplOthers

\* Line 738
SetUrlValue(value) ==
    /\ tpl.phase = "mounted"
    /\ tpl.contentType = "url"
    /\ tpl' = IF value = tpl.urlValue THEN tpl
              ELSE TemplateEffect([tpl EXCEPT !.urlValue = value])
    /\ UNCHANGED tplOthers

\* Lines 753, 764, 773: the fields of the WiFi form (it has none for hidden);
\* each sets a new wifiData object, so the effect runs
SetWifiData(field, value) ==
    /\ tpl.phase = "mounted"
    /\ tpl.contentType = "wifi"
    /\ \/ field = "ssid" /\ value \in Ssids
       \/ field = "password" /\ value \in Passwords
       \/ field = "encryption" /\ value \in Encryptions
    /\ tpl' = TemplateEffect([tpl EXCEPT !.wifiData[field] = value])
    /\ UNCHANGED tplOthers

\* Line 792: the one field of the email form, the address
SetEmailData(value) ==
    /\ tpl.phase = "mounted"
    /\ tpl.contentType = "email"
    /\ tpl' = TemplateEffect([tpl EXCEPT !.emailData.email = value])
    /\ UNCHANGED tplOthers

\* Lines 808, 817, 827: the fields of the contact form
SetVcardData(field, value) ==
    /\ tpl.phase = "mounted"
    /\ tpl.contentType = "vcard"
    /\ tpl' = TemplateEffect([tpl EXCEPT !.vcardData[field] = value])
    /\ UNCHANGED tplOthers

(***************************************************************************)
(* The Scanner's scanning loop (the scanning loop effect, resumeScanning). *)
(* The state updates of an animation-frame callback are applied by a       *)
(* re-render that React schedules as a task of its own; the platform does  *)
(* not order that task and the next animation frame.                       *)
(***************************************************************************)
\* Line 1445: a frame is decoded when more than 100 ms have passed since the
\* last decoded one
ThrottleMs == 100

\* The clock advances in steps of ScanClockMs, up to MaxClockSteps of them
\* since the last decoded frame
ScanClockMs == 60
MaxClockSteps == 3

\* onScan calls and decoded frames counted per detection
MaxOnScan == 3
MaxDecodes == 3

\* What jsQR returns for a frame: null or a code with data
Codes == {"null", "data"}

\* The Scanner after its mount on the scan tab: isScanning is true, the
\* effect has requested the first animation frame, lastScanTimeRef is 0.
\* closure: the isActive and isScanning that tick of the running effect
\* sees; frame: the animation frame animationFrameId names is pending;
\* pausePending: setIsScanning(false) is queued and no re-render applied it
\* yet; sinceScan: clock steps since lastScanTimeRef.current; stream: the
\* camera stream of the video, which the effect of lines 1406-1423 starts
\* from a timer and stops.
\* detected, onScanCalls, decodedAfter: a detection was made since the last
\* resume, the onScan calls since it, the frames decoded after it.
ScannerMounted ==
    [phase |-> "mounted", isActive |-> TRUE, isScanning |-> TRUE,
     closure |-> [isActive |-> TRUE, isScanning |-> TRUE], frame |-> TRUE,
     pausePending |-> FALSE, sinceScan |-> MaxClockSteps, stream |-> "starting",
     detected |-> FALSE, onScanCalls |-> 0, decodedAfter |-> 0]

scannerOthers ==
    <<cfg, reads, timers, sinceChange, runs, canvas, generatedBase64, started,
      last, plan, paint, tpl, ai, modal, app>>

\* Line 1445
ShouldScan(sinceScan) == sinceScan * ScanClockMs > ThrottleMs

\* The effects of a re-render with a new isActive or isScanning.  Lines
\* 1525-1529, with the cleanup of the loop effect that ran before: the
\* pending frame is cancelled, and a frame is requested when active and
\* scanning.  Lines 1406-1423: the camera is started from a timer when
\* active and scanning, and the stream is stopped otherwise.
RunLoopEffect(s, isActive, isScanning) ==
    [s EXCEPT !.isActive = isActive, !.isScanning = isScanning,
              !.closure = [isActive |-> isActive, isScanning |-> isScanning],
              !.frame = isActive /\ isScanning,
              !.stream = IF isActive /\ isScanning THEN "starting" ELSE "off",
              !.pausePending = FALSE]

\* Lines 1410-1412: the timer of the camera effect fires and the camera
\* starts
StartCamera ==
    /\ scanner.phase = "mounted"
    /\ scanner.stream = "starting"
    /\ scanner' = [scanner EXCEPT !.stream = "on"]
    /\ UNCHANGED scannerOthers

\* Time passes
ScanClock ==
    /\ scanner.phase = "mounted"
    /\ scanner.sinceScan < MaxClockSteps
    /\ scanner' = [scanner EXCEPT !.sinceScan = @ + 1]
    /\ UNCHANGED scannerOthers

\* Lines 1429-1523: tick, the animation-frame callback.  ready: the video
\* has enough data, which takes a running stream; code: what jsQR finds in
\* the frame.  isActive and isScanning are those of the closure.
tick(ready, code) ==
    /\ scanner.phase = "mounted"
    /\ scanner.frame
    /\ ready => scanner.stream = "on"
    /\ IF ~scanner.closure.isActive \/ ~scanner.closure.isScanning
       THEN scanner' = [scanner EXCEPT !.frame = FALSE]
       ELSE IF ready /\ ShouldScan(scanner.sinceScan)
       THEN /\ scanner.detected => scanner.decodedAfter < MaxDecodes
            /\ code # "null" => scanner.onScanCalls < MaxOnScan
            /\ scanner' =
                 [scanner EXCEPT
                    !.sinceScan = 0,
                    !.decodedAfter = IF scanner.detected THEN @ + 1 ELSE @,
                    !.pausePending = IF code # "null" THEN TRUE ELSE @,
                    !.detected = IF code # "null" THEN TRUE ELSE @,
                    !.onScanCalls = IF code # "null" THEN @ + 1 ELSE @,
                    !.frame = TRUE]
       ELSE scanner' = [scanner EXCEPT !.frame = TRUE]
    /\ UNCHANGED scannerOthers

\* The re-render that applies setIsScanning(false), with the effects it
\* runs: when isScanning was true the loop effect is cleaned up and run
\* again; when it was false already React bails out.
Rerender ==
    /\ scanner.phase = "mounted"
    /\ scanner.pausePending
    /\ scanner' = IF scanner.isScanning
                  THEN RunLoopEffect(scanner, scanner.isActive, FALSE)
                  ELSE [scanner EXCEPT !.pausePending = FALSE]
    /\ UNCHANGED scannerOthers

\* Lines 1540-1543, the button of lines 1624-1627 (shown while isScanning is
\* false): a click, so the re-render and its effects end with the handler
ResumeScanning ==
    /\ scanner.phase = "mounted"
    /\ ~scanner.isScanning
    /\ scanner' = [RunLoopEffect(scanner, scanner.isActive, TRUE) EXCEPT
                      !.detected = FALSE, !.onScanCalls = 0, !.decodedAfter = 0]
    /\ UNCHANGED scannerOthers

\* App's tab buttons: isActive is activeTab === 'scan'; a click, so the
\* re-render applies a queued pause too
SwitchTab(isActive) ==
    /\ scanner.phase = "mounted"
    /\ isActive # scanner.isActive
    /\ scanner' = RunLoopEffect(scanner, isActive,
                                scanner.isScanning /\ ~scanner.pausePending)
    /\ UNCHANGED scannerOthers

(***************************************************************************)
(* The Scanner's camera (the start/stop effect, startCamera, stopStream).  *)
(* A stream is named by the order in which getUserMedia delivered it.      *)
(***************************************************************************)
\* startCamera calls awaiting getUserMedia at one time, streams delivered
MaxStarts == 2
MaxStreams == 3

NoStream == 0

\* The Scanner after its mount on the scan tab, from the camera's side: the
\* effect of lines 1406-1423 has set its timer.  timer: the setTimeout of the
\* effect is pending; starts: startCamera calls at their await of
\* getUserMedia; streamRef: the stream streamRef.current holds; live: the
\* streams delivered whose tracks were not stopped; delivered: how many
\* streams getUserMedia delivered.
CameraMounted ==
    [phase |-> "camera", isActive |-> TRUE, isScanning |-> TRUE, timer |-> TRUE,
     starts |-> 0, streamRef |-> NoStream, live |-> {}, delivered |-> 0]

\* Lines 1214-1225: the tracks of the stream streamRef holds are stopped and
\* streamRef is cleared; nothing is done when it holds none
StopStream(s) ==
    IF s.streamRef # NoStream
    THEN [s EXCEPT !.live = @ \ {s.streamRef}, !.streamRef = NoStream]
    ELSE s

\* Lines 1406-1423, run after a render that changed a dependency, with the
\* cleanup of the run before: the cleanup of a run that set the timer only
\* clears it; the cleanup of a run that did not stops the stream.  The new
\* run sets the timer when active and scanning and stops the stream
\* otherwise.
CameraEffect(s, isActive, isScanning) ==
    LET cleaned == IF s.isActive /\ s.isScanning
                   THEN [s EXCEPT !.timer = FALSE]
                   ELSE StopStream(s)
        t == [cleaned EXCEPT !.isActive = isActive, !.isScanning = isScanning]
    IN  IF isActive /\ isScanning
        THEN [t EXCEPT !.timer = TRUE]
        ELSE StopStream(t)

\* App's tab buttons: isActive is activeTab === 'scan'
CameraSwitchTab(isActive) ==
    /\ scanner.phase = "camera"
    /\ isActive # scanner.isActive
    /\ scanner' = CameraEffect(scanner, isActive, scanner.isScanning)
    /\ UNCHANGED scannerOthers

\* Lines 1514, 1366: a detection pauses scanning (setIsScanning(false)), and
\* the re-render runs the effect
CameraPause ==
    /\ scanner.phase = "camera"
    /\ scanner.isScanning
    /\ scanner' = CameraEffect(scanner, scanner.isActive, FALSE)
    /\ UNCHANGED scannerOthers

\* Lines 1540-1543: resumeScanning
CameraResume ==
    /\ scanner.phase = "camera"
    /\ ~scanner.isScanning
    /\ scanner' = CameraEffect(scanner, scanner.isActive, TRUE)
    /\ UNCHANGED scannerOthers

\* Lines 1532-1538: switchCamera sets another activeCameraId, a dependency
\* of the effect
SwitchCamera ==
    /\ scanner.phase = "camera"
    /\ scanner.isActive
    /\ scanner' = CameraEffect(scanner, scanner.isActive, scanner.isScanning)
    /\ UNCHANGED scannerOthers

\* Lines 1410-1412 and 1228-1251: the timer fires (mounted is true in every
\* run that set a timer) and startCamera runs up to its await of
\* getUserMedia: it stops the stream streamRef holds
CameraTimerFire ==
    /\ scanner.phase = "camera"
    /\ scanner.timer
    /\ scanner.starts < MaxStarts
    /\ scanner' = [StopStream(scanner) EXCEPT !.timer = FALSE, !.starts = @ + 1]
    /\ UNCHANGED scannerOthers

\* Lines 1251-1252: getUserMedia resolves with a new stream and startCamera
\* stores it in streamRef, whatever isActive and isScanning are by now
GetUserMediaResolves ==
    /\ scanner.phase = "camera"
    /\ scanner.starts > 0
    /\ scanner.delivered < MaxStreams
    /\ scanner' = [scanner EXCEPT !.starts = @ - 1,
                                  !.delivered = @ + 1,
                                  !.streamRef = scanner.delivered + 1,
                                  !.live = @ \cup {scanner.delivered + 1}]
    /\ UNCHANGED scannerOthers

\* Lines 1279-1293: getUserMedia rejects (permission denied, no device)
GetUserMediaRejects ==
    /\ scanner.phase = "camera"
    /\ scanner.starts > 0
    /\ scanner' = [scanner EXCEPT !.starts = @ - 1]
    /\ UNCHANGED scannerOthers

(***************************************************************************)
(* App (src/unnamed/part_001): the scan and generated histories, the       *)
(* result shown in the modal, their copies in local storage, and the       *)
(* History view (src/components/ResultModal.tsx, History).                 *)
(***************************************************************************)
\* Line 54: a scan of the same data as the head of the history, less than
\* 2000 ms after it, adds no entry
DuplicateWindowMs == 2000

\* The clock advances in steps of AppClockMs, up to MaxNow of them
AppClockMs == 1000
MaxNow == 2

\* crypto.randomUUID gives a new id at every call: ids are numbered in the
\* order of the calls, MaxIds of them; the histories hold up to MaxScans
\* and MaxGenerated entries
MaxIds == 3
MaxScans == 2
MaxGenerated == 2

\* Local storage takes StorageQuota units; a stored scan (stripped of its
\* image) takes ScanUnits, a stored generated item, which holds its PNG as
\* a data URL, GeneratedUnits
StorageQuota == 3
ScanUnits == 1
GeneratedUnits == 2

ScanData == {"a", "b"}

\* The image argument of onScan: none from the camera loop (line 1515), the
\* uploaded picture from the file input (line 1367)
ScanImages == {"undefined", "image"}

AppTabs == {"scan", "generate", "history"}
Filters == {"scans", "generated"}

NoCurrentResult == [id |-> 0]

\* JSON.stringify of the scan history without the images, lines 26-31:
\* every item without its originalImage
WithoutImage(item) == [f \in DOMAIN item \ {"originalImage"} |-> item[f]]
SafeHistory(history) == [i \in DOMAIN history |-> WithoutImage(history[i])]

\* What local storage holds before start-up: nothing, or what an earlier
\* session saved
\* (present: getItem gives a string, not null; items: what it parses to)
NoEntry == [present |-> FALSE, items |-> <<>>]
Entry(items) == [present |-> TRUE, items |-> items]

StoredScans ==
    { NoEntry, Entry(<<>>),
      Entry(<<[id |-> -1, data |-> "a", timestamp |-> 0, aiSummary |-> FALSE]>>) }

StoredGenerated ==
    { NoEntry, Entry(<<>>),
      Entry(<<[id |-> -1, data |-> "a", timestamp |-> 0, base64 |-> "png"]>>) }

Units(stored, each) == Len(stored.items) * each

\* localStorage.setItem: the value replaces the entry of the key; when the
\* entries together would exceed the quota it throws and the entry stays
SetItemFits(storage, key, value) ==
    IF key = "qr-scans"
    THEN Len(value) * ScanUnits + Units(storage["qr-gen"], GeneratedUnits) <= StorageQuota
    ELSE Units(storage["qr-scans"], ScanUnits) + Len(value) * GeneratedUnits <= StorageQuota

\* A save effect, lines 25-36, after a render in which its history changed:
\* a throw of setItem in the effect takes the whole tree down
SaveEffect(a, key) ==
    LET value == IF key = "qr-scans" THEN SafeHistory(a.scannedHistory)
                 ELSE a.generatedHistory
    IN  IF a.phase # "mounted" THEN a
        ELSE IF SetItemFits(a.storage, key, value)
        THEN [a EXCEPT !.storage[key] = Entry(value)]
        ELSE [a EXCEPT !.phase = "crashed"]

\* App before its mount effects, over what local storage holds
AppStarting ==
    { [phase |-> "starting", now |-> 0, nextId |-> 1, nextGenId |-> 1,
       activeTab |-> "scan", scannedHistory |-> <<>>, generatedHistory |-> <<>>,
       currentResult |-> NoCurrentResult,
       storage |-> [k \in {"qr-scans", "qr-gen"} |->
                       IF k = "qr-scans" THEN scans ELSE gen],
       filter |-> "scans", isConfirmingClear |-> FALSE, requested |-> FALSE,
       loaded |-> [k \in {"qr-scans", "qr-gen"} |->
                       IF k = "qr-scans" THEN scans ELSE gen]]
      : scans \in StoredScans, gen \in StoredGenerated }

appOthers ==
    <<cfg, reads, timers, sinceChange, runs, canvas, generatedBase64, started,
      last, plan, paint, tpl, ai, modal, scanner>>

\* Lines 15-36, the mount: the load effect reads both entries and sets the
\* histories, the save effects of the first render store the empty
\* histories, and after the re-render with the loaded histories the save
\* effects run again.  loaded keeps what storage held before.
AppMount ==
    /\ app.phase = "starting"
    /\ LET emptied == [k \in {"qr-scans", "qr-gen"} |-> Entry(<<>>)]
           a == [app EXCEPT
                   !.phase = "mounted",
                   !.storage = emptied,
                   !.scannedHistory =
                       IF app.storage["qr-scans"].present
                       THEN app.storage["qr-scans"].items ELSE @,
                   !.generatedHistory =
                       IF app.storage["qr-gen"].present
                       THEN app.storage["qr-gen"].items ELSE @]
       IN  app' = SaveEffect(SaveEffect(a, "qr-scans"), "qr-gen")
    /\ UNCHANGED appOthers

\* Time passes
AppClock ==
    /\ app.phase = "mounted"
    /\ app.now < MaxNow
    /\ app' = [app EXCEPT !.now = @ + 1]
    /\ UNCHANGED appOthers

\* Line 54: the test of the updater
IsDuplicateInclusive(prev, data, now) ==
    /\ Len(prev) > 0
    /\ prev[1].data = data
    /\ (now - prev[1].timestamp) * AppClockMs <= DuplicateWindowMs
IsDuplicate(prev, data, now) ==
    /\ Len(prev) > 0
    /\ prev[1].data = data
    /\ (now - prev[1].timestamp) * AppClockMs < DuplicateWindowMs

\* Lines 38-60: handleScan, called by the Scanner on the scan tab, with the
\* render and the save effect that follow it
HandleScan(data, image) ==
    /\ app.phase = "mounted"
    /\ app.activeTab = "scan"
    /\ app.nextId <= MaxIds
    /\ LET newScan == [id |-> app.nextId, data |-> data, timestamp |-> app.now,
                       originalImage |-> image, aiSummary |-> FALSE]
           duplicate == IsDuplicate(app.scannedHistory, data, app.now)
           a == [app EXCEPT
                   !.nextId = @ + 1,
                   !.scannedHistory = IF duplicate THEN @ ELSE <<newScan>> \o @,
                   !.currentResult = newScan]
       IN  /\ ~duplicate => Len(app.scannedHistory) < MaxScans
           /\ app' = IF duplicate THEN a ELSE SaveEffect(a, "qr-scans")
    /\ UNCHANGED appOthers

\* Lines 74-77: updateScanResult, called by the modal with the result it
\* shows and the summary it obtained for it
UpdateScanResult ==
    /\ app.phase = "mounted"
    /\ app.currentResult # NoCurrentResult
    /\ ~app.currentResult.aiSummary
    /\ LET updated == [app.currentResult EXCEPT !.aiSummary = TRUE]
           a == [app EXCEPT
                   !.currentResult = updated,
                   !.scannedHistory =
                       [i \in DOMAIN @ |-> IF @[i].id = updated.id THEN updated ELSE @[i]]]
       IN  app' = SaveEffect(a, "qr-scans")
    /\ UNCHANGED appOthers

\* Line 133: onClose of the modal
CloseResult ==
    /\ app.phase = "mounted"
    /\ app.currentResult # NoCurrentResult
    /\ app' = [app EXCEPT !.currentResult = NoCurrentResult]
    /\ UNCHANGED appOthers

\* Lines 62-64: handleGenerate, called by the Generator's handleDownload
HandleGenerateState(a, item) ==
    SaveEffect([a EXCEPT !.generatedHistory = <<item>> \o @], "qr-gen")

HandleGenerate(data) ==
    /\ app.phase = "mounted"
    /\ app.activeTab = "generate"
    /\ Len(app.generatedHistory) < MaxGenerated
    /\ app.nextGenId <= MaxGenerated
    /\ app' = HandleGenerateState(
                 [app EXCEPT !.nextGenId = @ + 1],
                 [id |-> app.nextGenId, data |-> data, timestamp |-> app.now,
                  base64 |-> "png"])
    /\ UNCHANGED appOthers

\* Lines 97-128: the navigation buttons; History is mounted on its tab only
\* (line 93), so that its state starts anew at every visit
SetActiveTab(tab) ==
    /\ app.phase = "mounted"
    /\ tab # app.activeTab
    /\ app' = [app EXCEPT !.activeTab = tab, !.filter = "scans",
                          !.isConfirmingClear = FALSE, !.requested = FALSE]
    /\ UNCHANGED appOthers

\* History, line 367: the list the view shows is empty
CurrentListEmpty(a) ==
    IF a.filter = "scans" THEN Len(a.scannedHistory) = 0
    ELSE Len(a.generatedHistory) = 0

\* History, lines 364-368 and 407, 413: the tabs of the view
HandleTabChangeKeepsConfirm(a, newFilter) == [a EXCEPT !.filter = newFilter]
HandleTabChangeState(a, newFilter) ==
    [a EXCEPT !.filter = newFilter, !.isConfirmingClear = FALSE]

HandleTabChange(newFilter) ==
    /\ app.phase = "mounted"
    /\ app.activeTab = "history"
    /\ app' = [HandleTabChangeState(app, newFilter) EXCEPT !.requested = FALSE]
    /\ UNCHANGED appOthers

\* History, lines 395-401: the Clear button, shown for a non-empty list
\* when no confirmation is pending.  requested records that the user asked
\* to clear and has neither changed the tab nor answered since.
RequestClear ==
    /\ app.phase = "mounted"
    /\ app.activeTab = "history"
    /\ ~CurrentListEmpty(app)
    /\ ~app.isConfirmingClear
    /\ app' = [app EXCEPT !.isConfirmingClear = TRUE, !.requested = TRUE]
    /\ UNCHANGED appOthers

\* History, lines 388-393: No
AnswerNo ==
    /\ app.phase = "mounted"
    /\ app.activeTab = "history"
    /\ ~CurrentListEmpty(app)
    /\ app.isConfirmingClear
    /\ app' = [app EXCEPT !.isConfirmingClear = FALSE, !.requested = FALSE]
    /\ UNCHANGED appOthers

\* Lines 66-72: handleClearHistory
HandleClearHistoryState(a, type) ==
    IF type = "scans"
    THEN SaveEffect([a EXCEPT !.scannedHistory = <<>>], "qr-scans")
    ELSE IF type = "generated"
    THEN SaveEffect([a EXCEPT !.generatedHistory = <<>>], "qr-gen")
    ELSE a

\* History, lines 381-386: Yes calls onClear with the tab of the view and
\* ends the confirmation.  cleared records the call.
AnswerYes ==
    /\ app.phase = "mounted"
    /\ app.activeTab = "history"
    /\ ~CurrentListEmpty(app)
    /\ app.isConfirmingClear
    /\ app' = [HandleClearHistoryState(app, app.filter) EXCEPT
                  !.isConfirmingClear = FALSE, !.requested = FALSE]
    /\ UNCHANGED appOthers

\* History, line 437: a click on a scan of the list shows it in the modal
SelectScan(i) ==
    /\ app.phase = "mounted"
    /\ app.activeTab = "history"
    /\ app.filter = "scans"
    /\ i \in DOMAIN app.scannedHistory
    /\ app' = [app EXCEPT !.currentResult = app.scannedHistory[i]]
    /\ UNCHANGED appOthers

(***************************************************************************)
(* The Download button of the Generator (lines 548-563) and App's          *)
(* handleGenerate behind its onGenerate prop (part_001, lines 62-64).      *)
(***************************************************************************)
\* App mounted over an empty local storage, the Generate tab selected (the
\* Generator is mounted on that tab only, part_001 line 87)
AppOnGenerateTab ==
    [phase |-> "mounted", now |-> 0, nextId |-> 1, nextGenId |-> 1,
     activeTab |-> "generate", scannedHistory |-> <<>>, generatedHistory |-> <<>>,
     currentResult |-> NoCurrentResult,
     storage |-> [k \in {"qr-scans", "qr-gen"} |-> Entry(<<>>)],
     filter |-> "scans", isConfirmingClear |-> FALSE, requested |-> FALSE,
     loaded |-> [k \in {"qr-scans", "qr-gen"} |-> NoEntry]]

\* handleDownload: if (!generatedBase64) return; the link is clicked and
\* onGenerate({id: crypto.randomUUID(), data: text, timestamp: Date.now(),
\* base64: generatedBase64}), text and generatedBase64 being the state of the
\* render the button belongs to
HandleDownload ==
    /\ app.phase = "mounted"
    /\ app.activeTab = "generate"
    /\ generatedBase64 # EmptyImage
    /\ app.nextGenId <= MaxGenerated
    /\ app' = HandleGenerateState(
                 [app EXCEPT !.nextGenId = @ + 1],
                 [id |-> app.nextGenId, data |-> cfg.text, timestamp |-> app.now,
                  base64 |-> generatedBase64])
    /\ UNCHANGED appOthers

\* The Generator before anything happens in it
GeneratorIdle ==
    /\ cfg = InitCfg
    /\ reads = <<>>
    /\ timers = <<>>
    /\ sinceChange = 0
    /\ runs = [i \in RunSlots |-> FreeRun]
    /\ canvas = BlankCanvas
    /\ generatedBase64 = EmptyImage
    /\ started = <<>>
    /\ last = NoRun
    /\ plan = PlanIdle
    /\ paint = PaintIdle

InitAnalyze ==
    /\ GeneratorIdle
    /\ tpl = TplIdle
    /\ ai \in [phase : {"input"}, in : AnalyzeInputs]
    /\ modal = ModalIdle
    /\ scanner = ScannerIdle
    /\ app = AppIdle

SpecAnalyze == InitAnalyze /\ [][AnalyzeContentCall]_vars

InitModal ==
    /\ GeneratorIdle
    /\ tpl = TplIdle
    /\ ai \in [apiKey : ApiKeys, calls : {<<>>}]
    /\ modal = ModalClosed(0)
    /\ scanner = ScannerIdle
    /\ app = AppIdle

NextModal ==
    \/ \E r \in ScanResults : ShowResult(r)
    \/ CloseModal
    \/ HandleAnalyze
    \/ \E i \in 1..MaxCalls, response \in Responses : AnalyzeReturns(i, response)

SpecModal == InitModal /\ [][NextModal]_vars

InitTpl ==
    /\ GeneratorIdle
    /\ tpl = TplMounted
    /\ ai = AiIdle
    /\ modal = ModalIdle
    /\ scanner = ScannerIdle
    /\ app = AppIdle

NextTpl ==
    \/ \E type \in ContentTypes : SetContentType(type)
    \/ \E value \in PlainTexts : TypeText(value)
    \/ \E value \in UrlValues : SetUrlValue(value)
    \/ \E field \in {"ssid", "password", "encryption"},
          value \in Ssids \cup Passwords \cup Encryptions : SetWifiData(field, value)
    \/ \E value \in EmailAddresses : SetEmailData(value)
    \/ \E field \in VcardTyped, value \in VcardValues : SetVcardData(field, value)

SpecTpl == InitTpl /\ [][NextTpl]_vars

InitScan ==
    /\ GeneratorIdle
    /\ tpl = TplIdle
    /\ ai = AiIdle
    /\ modal = ModalIdle
    /\ scanner = ScannerMounted
    /\ app = AppIdle

NextScan ==
    \/ ScanClock
    \/ StartCamera
    \/ \E ready \in BOOLEAN, code \in Codes : tick(ready, code)
    \/ Rerender
    \/ ResumeScanning
    \/ \E isActive \in BOOLEAN : SwitchTab(isActive)

SpecScan == InitScan /\ [][NextScan]_vars

InitCam ==
    /\ GeneratorIdle
    /\ tpl = TplIdle
    /\ ai = AiIdle
    /\ modal = ModalIdle
    /\ scanner = CameraMounted
    /\ app = AppIdle

NextCam ==
    \/ \E isActive \in BOOLEAN : CameraSwitchTab(isActive)
    \/ CameraPause
    \/ CameraResume
    \/ SwitchCamera
    \/ CameraTimerFire
    \/ GetUserMediaResolves
    \/ GetUserMediaRejects

SpecCam == InitCam /\ [][NextCam]_vars

\* The App with the other components idle
AppAlone ==
    /\ GeneratorIdle
    /\ tpl = TplIdle
    /\ ai = AiIdle
    /\ modal = ModalIdle
    /\ scanner = ScannerIdle

\* Scans and the result shown: start-up over the stored scans, camera
\* scans, summaries, the modal, the navigation and the list of History
InitApp ==
    /\ AppAlone
    /\ app \in {a \in AppStarting : ~a.storage["qr-gen"].present}

NextApp ==
    \/ AppMount
    \/ AppClock
    \/ \E data \in ScanData : HandleScan(data, "undefined")
    \/ UpdateScanResult
    \/ CloseResult
    \/ \E tab \in AppTabs : SetActiveTab(tab)
    \/ \E i \in 1..MaxScans : SelectScan(i)

SpecApp == InitApp /\ [][NextApp]_vars

\* The histories and local storage: start-up over everything stored,
\* scans from the camera and from pictures, summaries, downloads, clearing
InitStorage ==
    /\ AppAlone
    /\ app \in AppStarting

NextStorage ==
    \/ AppMount
    \/ \E data \in ScanData, image \in ScanImages : HandleScan(data, image)
    \/ UpdateScanResult
    \/ HandleGenerate("a")
    \/ \E tab \in AppTabs : SetActiveTab(tab)
    \/ \E newFilter \in Filters : HandleTabChange(newFilter)
    \/ RequestClear
    \/ AnswerYes

SpecStorage == InitStorage /\ [][NextStorage]_vars

\* The History view over the stored histories
NextHistory ==
    \/ AppMount
    \/ \E tab \in AppTabs : SetActiveTab(tab)
    \/ \E newFilter \in Filters : HandleTabChange(newFilter)
    \/ RequestClear
    \/ AnswerNo
    \/ AnswerYes
    \/ \E i \in 1..MaxScans : SelectScan(i)
    \/ CloseResult

SpecHistory == InitStorage /\ [][NextHistory]_vars

\* The Generator with its Download button, inside App on the Generate tab
InitDownload ==
    /\ cfg = InitCfg
    /\ reads = <<>>
    /\ timers = SetTimeout(<<>>, InitCfg)
    /\ sinceChange = 0
    /\ runs = [i \in RunSlots |-> FreeRun]
    /\ canvas = BlankCanvas
    /\ generatedBase64 = EmptyImage
    /\ started = <<>>
    /\ last = NoRun
    /\ plan = PlanIdle
    /\ paint = PaintIdle
    /\ tpl = TplIdle
    /\ ai = AiIdle
    /\ modal = ModalIdle
    /\ scanner = ScannerIdle
    /\ app = AppOnGenerateTab

NextDownload ==
    \/ \E t \in Texts \cup {"long"} : SetText(t)
    \/ \E t \in Labels : SetLabelText(t)
    \/ Tick
    \/ \E i \in 1..(MaxRuns + 1) : TimerFire(i)
    \/ HandleDownload

SpecDownload == InitDownload /\ [][NextDownload]_vars



(***************************************************************************)
(* Claims                                                                  *)
(***************************************************************************)
InZone(r, c, lo, hi) == r >= lo /\ r < hi /\ c >= lo /\ c < hi

\* C1: in every run of the module loop, for every module count, matrix, dot
\* style, label and logo presence, no drawModule call is made for a cell of
\* the top-left, top-right or bottom-left 7x7 finder zone.
C1_NoModuleInFinderZone ==
    paint.phase = "painted" =>
        \A k \in 1..Len(paint.calls) :
            LET r == paint.calls[k].r
                c == paint.calls[k].c
                N == paint.g.moduleCount
            IN  /\ ~(r < 7 /\ c < 7)
                /\ ~(r < 7 /\ c >= N - 7)
                /\ ~(r >= N - 7 /\ c < 7)

\* A painted matrix with a logo and a top label, whose dark corner cells of
\* the three finder zones were skipped while other cells were drawn
C1_Witness ==
    /\ paint.phase = "painted"
    /\ paint.in.logo # NoLogo
    /\ paint.in.labelText # "" /\ paint.in.labelPosition = "top"
    /\ paint.in.dotStyle = "cross"
    /\ ModulesGet(paint.g.moduleCount, paint.in.mask, 0, 0)
    /\ ModulesGet(paint.g.moduleCount, paint.in.mask, 6, paint.g.moduleCount - 7)
    /\ ModulesGet(paint.g.moduleCount, paint.in.mask, paint.g.moduleCount - 1, 6)
    /\ Len(paint.calls) > 0

CallsFor(r, c) == {k \in 1..Len(paint.calls) : paint.calls[k].r = r /\ paint.calls[k].c = c}

\* C2: with a logo attached no drawModule call is made for a cell of the
\* square [logoStart, logoEnd) x [logoStart, logoEnd); without a logo there is
\* no exclusion square, and every dark cell outside the three finder zones is
\* drawn exactly once.
C2_LogoZoneNeverDrawn ==
    paint.phase = "painted" =>
        LET N == paint.g.moduleCount
            lo == paint.g.logoStart
            hi == paint.g.logoEnd
        IN  /\ paint.in.logo # NoLogo =>
                  \A k \in 1..Len(paint.calls) :
                      ~InZone(paint.calls[k].r, paint.calls[k].c, lo, hi)
            /\ paint.in.logo = NoLogo =>
                  /\ lo = -1 /\ hi = -1
                  /\ \A r \in 0..(N - 1), c \in 0..(N - 1) :
                        IF /\ ModulesGet(N, paint.in.mask, r, c)
                           /\ ~(r < 7 /\ c < 7)
                           /\ ~(r < 7 /\ c >= N - 7)
                           /\ ~(r >= N - 7 /\ c < 7)
                        THEN Cardinality(CallsFor(r, c)) = 1
                        ELSE CallsFor(r, c) = {}

\* A painted matrix with a logo whose exclusion square held a dark cell, on
\* its first row, that was not drawn
C2_Witness ==
    /\ paint.phase = "painted"
    /\ paint.in.logo # NoLogo
    /\ paint.g.logoStart < paint.g.logoEnd
    /\ \E c \in paint.g.logoStart..(paint.g.logoEnd - 1) :
          ModulesGet(paint.g.moduleCount, paint.in.mask, paint.g.logoStart, c)
    /\ Len(paint.calls) > 0

\* C9: for every module count of the encoder and a logo attached, the side
\* logoEnd - logoStart of the exclusion square is odd and the square is
\* centered: logoStart = moduleCount - logoEnd.
C9_ZoneOddAndCentered ==
    (plan.phase = "planned" /\ plan.in.logo # NoLogo) =>
        /\ (plan.g.logoEnd - plan.g.logoStart) % 2 = 1
        /\ plan.g.logoStart = plan.g.moduleCount - plan.g.logoEnd

\* Version 2: the logo spans 7.25 modules, Math.ceil gives 8, an even size
\* that is raised to 9
C9_Witness ==
    /\ plan.phase = "planned"
    /\ plan.in.logo # NoLogo
    /\ plan.in.moduleCount = 25
    /\ plan.g.logoStart = 8 /\ plan.g.logoEnd = 17

\* C10: for every module count, output size and label setting, the pixel
\* square the logo is drawn in lies inside the pixel bounds of the exclusion
\* square on both axes, and clear of the half pixel by which a square module
\* left of or above the exclusion square overhangs its cell.
C10_LogoInsideZonePixels ==
    (plan.phase = "planned" /\ plan.in.logo # NoLogo) =>
        LET g == plan.g
            x0 == ModuleX(g, g.logoStart)
            x1 == ModuleX(g, g.logoEnd)
            y0 == ModuleY(g, g.logoStart)
            y1 == ModuleY(g, g.logoEnd)
        IN  /\ RLe(RAdd(x0, Rat(1, 2)), g.logoX)
            /\ RLe(RAdd(g.logoX, g.logoSizePx), x1)
            /\ RLe(RAdd(y0, Rat(1, 2)), g.logoY)
            /\ RLe(RAdd(g.logoY, g.logoSizePx), y1)

\* The largest matrix at the smallest size with a top label that shifts the
\* QR region down
C10_Witness ==
    /\ plan.phase = "planned"
    /\ plan.in.logo # NoLogo
    /\ plan.in.moduleCount = 177 /\ plan.in.qrSize = 500
    /\ plan.in.labelText # "" /\ plan.in.labelPosition = "top"
    /\ RLt(RInt(0), plan.g.qrOffsetY)
    /\ RLt(plan.g.qrOffsetY, plan.g.logoY)

\* C3: when a file read completes and the logo becomes attached, the level
\* is H if the level in force just before was L or M, and is that level if it
\* was Q or H, whatever level edits happened while the file was read; when
\* the logo is removed the level becomes M.
C3_AttachUpgradesLevel ==
    [][ /\ (Len(reads') < Len(reads)) =>
            /\ cfg'.logo # NoLogo
            /\ cfg'.errorLevel = IF cfg.errorLevel \in {"L", "M"} THEN "H"
                                 ELSE cfg.errorLevel
        /\ (cfg.logo # NoLogo /\ cfg'.logo = NoLogo) => cfg'.errorLevel = "M"
      ]_vars

\* The states in which changes have stopped taking effect: no file read, no
\* debounce timer and no image load is pending
Quiescent ==
    /\ reads = <<>>
    /\ timers = <<>>
    /\ \A i \in RunSlots : runs[i].state = "free"

\* The image a render of configuration c alone produces on a fresh canvas,
\* for a configuration whose logo (if any) loads
RenderOf(c) ==
    IF c.text = "" THEN EmptyImage
    ELSE DrawLabel(IF c.logo # NoLogo THEN DrawLogo(PaintBase(c), c) ELSE PaintBase(c), c)

\* C4: once no file read, timer or image load is pending, the published image
\* is the from-scratch render of the current configuration (stated for
\* configurations whose logo, if any, is a loadable image).
C4_QuiescentImageIsLatest ==
    (Quiescent /\ cfg.logo # "bad") => generatedBase64 = RenderOf(cfg)

\* C5: a render whose logo load ended with the error event does not end in the
\* catch block: it draws no logo, draws the label if there is one and
\* publishes the canvas.
C5_LoadErrorStillPublishes ==
    (last.kind = "resume" /\ last.load = "error") =>
        /\ ~last.error
        /\ Len(last.ops) >= 2
        /\ last.ops[Len(last.ops)] = "setGeneratedBase64"
        /\ last.ops[Len(last.ops) - 1] = "toDataURL"
        /\ generatedBase64 = canvas
        /\ generatedBase64.kind = "png" /\ generatedBase64.logo = NoLogo

\* What the renders in progress and the last render that took a step have
\* done so far, for the renders whose closure holds a logo
LogoRenderOps ==
    {runs[i].ops : i \in {j \in RunSlots : runs[j].state = "awaiting"}}
    \cup (IF last.logo THEN {last.ops} ELSE {})

Resolutions(O) == Cardinality({k \in DOMAIN O : O[k] = "resolve"})

\* Every logo draw, label draw and read-out of the canvas in O comes after a
\* resolution of the load
DrawsAfterResolve(O) ==
    \A k \in DOMAIN O :
        O[k] \in {"drawImage", "fillText", "toDataURL"} =>
            \E j \in 1..(k - 1) : O[j] = "resolve"

\* The render that did O has returned
Finished(O) == O # <<>> /\ O[Len(O)] \in {"setGeneratedBase64", "catch"}

C6_Safety ==
    \A O \in LogoRenderOps :
        /\ DrawsAfterResolve(O)
        /\ Resolutions(O) <= 1
        /\ (Finished(O) /\ \E k \in DOMAIN O : O[k] = "fillRect") => Resolutions(O) = 1

\* C6: in a render with a logo attached, the logo draw, the label draw and
\* the publication of the canvas come after the resolution of the logo load;
\* the load resolves at most once, and exactly once in a render that has
\* painted and returned; and, the browser ending every image load with a load
\* or an error event, every render suspended at the await finishes.
C6_LoadIsOneShotSuspendPoint ==
    /\ []C6_Safety
    /\ \A i \in RunSlots : (runs[i].state = "awaiting") ~> (runs[i].state = "free")

\* A render with a logo and a label that was suspended, whose load then
\* resolved, and that drew the logo and the label and published
C6_Witness ==
    /\ last.kind = "resume" /\ last.logo /\ last.load = "load"
    /\ last.ops = SyncOps(cfg) \o <<"await", "resolve", "drawImage", "fillText",
                                    "toDataURL", "setGeneratedBase64">>
    /\ generatedBase64.logo = "good" /\ generatedBase64.label = "lbl"

\* C7: at most one debounce timer is pending, and it is the one of the
\* current configuration, set when that configuration was committed; a render
\* has started only if 300 ms passed since the last change; and since the
\* last change at most one render started, for the current configuration,
\* exactly one once no timer is pending.
C7_DebounceOneRenderForLast ==
    /\ Len(timers) <= 1
    /\ Len(started) <= 1
    /\ timers # <<>> =>
          /\ timers[1].cfg = cfg
          /\ timers[1].left = DebounceMs - sinceChange
          /\ started = <<>>
    /\ started # <<>> => sinceChange >= DebounceMs /\ started[1] = cfg
    /\ timers = <<>> => started = <<cfg>>

\* A burst: the text and then the label were changed less than 300 ms apart,
\* and the one render that followed was started for the configuration with
\* both changes, 300 ms after the second
C7_Witness ==
    /\ cfg.text = "a" /\ cfg.labelText = "lbl" /\ cfg.logo = NoLogo
    /\ timers = <<>>
    /\ started = <<cfg>>
    /\ sinceChange = DebounceMs
    /\ last.kind = "start" /\ last.ops = SyncOps(cfg) \o TailOps(cfg)
    /\ generatedBase64 = RenderOf(cfg)

\* C8: a render started with an empty text does one thing, the publication
\* of the empty image: no QRCode.create, no canvas operation, no catch block.
C8_EmptyTextPublishesEmpty ==
    (started # <<>> /\ started[Len(started)].text = "" /\ last.kind = "start") =>
        /\ last.ops = <<"setGeneratedBase64">>
        /\ ~last.error
        /\ generatedBase64 = EmptyImage

\* An image was published and is on the canvas, then the text was emptied and
\* the render for the empty text replaced the published image by the empty one
C8_Witness ==
    /\ started # <<>> /\ started[Len(started)].text = "" /\ last.kind = "start"
    /\ canvas.kind = "png"
    /\ generatedBase64 = EmptyImage
    /\ last.ops = <<"setGeneratedBase64">>

\* cellSize * (moduleCount + 2 * margin), evaluated in doubles as the code
\* would evaluate it
SpanDouble == DoubleTimes(plan.cellSize, plan.in.moduleCount + 2 * Margin)

\* C11 as stated: for every module count and output size the computed cell
\* size satisfies cellSize * (N + 2 * margin) = S exactly.
C11_CellSizeTimesSpanIsSize ==
    plan.phase = "planned" => SpanDouble = DoubleOf(plan.in.qrSize)

\* x is d or one of the two doubles next to d
WithinOneUlp(x, d) ==
    \/ x = d
    \/ x = IncLast(d.int, d.frac)
    \/ IncLast(x.int, x.frac) = d

\* C11, amended: for every module count and output size the computed cell
\* size satisfies cellSize * (N + 2 * margin) = S up to the rounding of
\* doubles: the product is S or a double next to S.
C11_CellSizeTimesSpanNearSize ==
    plan.phase = "planned" => WithinOneUlp(SpanDouble, DoubleOf(plan.in.qrSize))

\* Version 2 at size 500: 500 / 29 rounds up, and 29 times the rounded
\* quotient is 500.00000000000006, the double after 500
C11_Witness ==
    /\ plan.phase = "planned"
    /\ plan.in.moduleCount = 25 /\ plan.in.qrSize = 500
    /\ SpanDouble # DoubleOf(500)
    /\ SpanDouble = IncLast(500, DoubleOf(500).frac)

\* The label band of the planned input: 2.5 * labelSize * (S / 1000) with a
\* label, 0 without
LabelBand ==
    IF plan.in.labelText # ""
    THEN RMul(Rat(5, 2), RMul(RInt(plan.in.labelSize), Rat(plan.in.qrSize, 1000)))
    ELSE RInt(0)

\* The cell size is S / (N + 4) and the QR region, margins included, spans S
\* on both axes, whatever the label
QrRegionIsSquare ==
    LET g == plan.g
        N == plan.in.moduleCount
        S == RInt(plan.in.qrSize)
    IN  /\ g.cellSize = Rat(plan.in.qrSize, N + 2 * Margin)
        /\ RAdd(ModuleX(g, N), g.offset) = S
        /\ RSub(RAdd(ModuleY(g, N), g.offset), g.qrOffsetY) = S
        /\ ModuleX(g, 0) = g.offset
        /\ RSub(ModuleY(g, 0), g.qrOffsetY) = g.offset

\* C12 as stated: the canvas width is S and the canvas height is S plus the
\* label band; the cell size and the S-by-S extent of the QR region do not
\* depend on the label.
C12_CanvasIsSizePlusBand ==
    plan.phase = "planned" =>
        /\ RInt(plan.canvasWidth) = RInt(plan.in.qrSize)
        /\ RInt(plan.canvasHeight) = RAdd(RInt(plan.in.qrSize), LabelBand)
        /\ QrRegionIsSquare

\* C12, amended: the canvas width is S and the canvas height is S plus the
\* label band rounded down to a whole number of pixels; the cell size and the
\* S-by-S extent of the QR region do not depend on the label.
C12_CanvasIsSizePlusBandFloored ==
    plan.phase = "planned" =>
        /\ plan.canvasWidth = plan.in.qrSize
        /\ plan.canvasHeight = RFloor(RAdd(RInt(plan.in.qrSize), LabelBand))
        /\ plan.g.totalHeight = RAdd(RInt(plan.in.qrSize), LabelBand)
        /\ QrRegionIsSquare

\* Label size 21 at size 500: the band is 26.25 pixels high and the canvas
\* 526
C12_Witness ==
    /\ plan.phase = "planned"
    /\ plan.in.labelText # "" /\ plan.in.labelSize = 21 /\ plan.in.qrSize = 500
    /\ LabelBand = Rat(105, 4)
    /\ plan.canvasHeight = 526 /\ plan.canvasWidth = 500

\* C13: the QR region is shifted down by the label band if a label is present
\* at the top and by 0 otherwise; the label is centered vertically in its
\* band, [0, band) at the top and [S, S + band) at the bottom, which the
\* S-by-S QR region [qrOffsetY, qrOffsetY + S) does not overlap; modules,
\* finder patterns and logo are placed from the same offsets.
C13_LabelShiftsQrRegion ==
    plan.phase = "planned" =>
        LET g == plan.g
            N == plan.in.moduleCount
            S == RInt(plan.in.qrSize)
            top == plan.in.labelText # "" /\ plan.in.labelPosition = "top"
            half == RDiv(LabelBand, RInt(2))
        IN  /\ g.qrOffsetY = IF top THEN LabelBand ELSE RInt(0)
            /\ plan.in.labelText # "" =>
                  IF plan.in.labelPosition = "top"
                  THEN /\ g.textY = half
                       /\ RLe(LabelBand, g.qrOffsetY)
                  ELSE /\ g.textY = RAdd(S, half)
                       /\ RLe(RAdd(g.qrOffsetY, S), S)
            /\ g.textX = RDiv(S, RInt(2))
            /\ ModuleX(g, 0) = g.offset
            /\ ModuleY(g, 0) = RAdd(g.qrOffsetY, g.offset)
            /\ plan.finders[1] = [x |-> ModuleX(g, 0), y |-> ModuleY(g, 0)]
            /\ plan.finders[2] = [x |-> ModuleX(g, N - 7), y |-> ModuleY(g, 0)]
            /\ plan.finders[3] = [x |-> ModuleX(g, 0), y |-> ModuleY(g, N - 7)]
            /\ RSub(g.logoY, g.qrOffsetY) = g.logoX
            /\ RAdd(RAdd(g.logoX, g.logoSizePx), g.logoX) = S

\* A label of fractional band height at the top, with a logo: the region, the
\* finder patterns and the logo are all 26.25 pixels further down
C13_Witness ==
    /\ plan.phase = "planned"
    /\ plan.in.labelText # "" /\ plan.in.labelPosition = "top"
    /\ plan.in.labelSize = 21 /\ plan.in.qrSize = 500 /\ plan.in.logo # NoLogo
    /\ plan.g.qrOffsetY = Rat(105, 4)
    /\ plan.g.textY = Rat(105, 8)
    /\ plan.finders[1].y = RAdd(Rat(105, 4), plan.g.offset)
    /\ plan.g.logoY = RAdd(Rat(105, 4), plan.g.logoX)

\* The place of a canvas call in the order: background, data modules, finder
\* patterns, logo, label, read-out
PaintRank(op) ==
    CASE op = "fillRect" -> 1
      [] op = "drawModule" -> 2
      [] op = "drawFinderPattern" -> 3
      [] op = "drawImage" -> 4
      [] op = "fillText" -> 5
      [] OTHER -> 6

StepsOf(op) == {k \in 1..Len(paint.steps) : paint.steps[k].op = op}

RenderStarts == Len(started') > Len(started)

\* A step in which a render suspended at the await is resumed
RenderResumes == \E i \in RunSlots : runs[i].state = "awaiting" /\ runs'[i].state = "free"

\* C15: when QRCode.create or a drawing step throws, the render ends in its
\* own catch block, the published image and the configuration stay as they
\* were, no file read or timer is started, and once a render for the current
\* configuration has failed no render starts until the configuration changes.
C15_FailureIsLocal ==
    [][ /\ ((RenderStarts \/ RenderResumes) /\ last'.error) =>
              /\ last'.ops[Len(last'.ops)] = "catch"
              /\ generatedBase64' = generatedBase64
              /\ cfg' = cfg
              /\ reads' = reads
              /\ Len(timers') <= Len(timers)
        /\ (last.error /\ started # <<>> /\ cfg' = cfg) => ~RenderStarts
      ]_vars

\* An image was published for a short text; then the text became one that no
\* version holds at level M, the render for it failed in QRCode.create and
\* the published image is still the one of the short text
C15_Witness ==
    /\ cfg.text = "long"
    /\ started = <<cfg>>
    /\ last.kind = "start" /\ last.error /\ last.ops = <<"create", "catch">>
    /\ generatedBase64.kind = "png" /\ generatedBase64.text = "a"
    /\ timers = <<>>

\* The analysis the response schema requires: an object with summary,
\* safetyRating, category and actions
WellFormedAnalysis(v) ==
    v.type = "object" /\ {"summary", "safetyRating", "category", "actions"} \subseteq v.fields

\* C16: analyzeContent never rejects; it returns null without an API key,
\* when the service call fails, when the response text is empty and when the
\* response is not a well-formed analysis; what it returns is null or a
\* well-formed analysis.
C16_NullUnlessWellFormed ==
    ai.phase = "returned" =>
        LET in == ai.in
            out == ai.out
        IN  /\ ~out.rejected
            /\ in.apiKey = "" => out.value = JsNull
            /\ in.response.kind = "reject" => out.value = JsNull
            /\ in.response.text \in {"undefined", ""} => out.value = JsNull
            /\ out.value # JsNull => WellFormedAnalysis(out.value)

\* The calls in flight that the mounted modal made
CallsOfModal == {i \in DOMAIN ai.calls : ai.calls[i].mount = modal.mounts}

\* C17: while a modal is mounted its analyzing flag is true exactly while a
\* call it made is in flight, and it has at most one in flight; a call is
\* started only by a modal that shows a result, with AI available, whose
\* flag is false, and the flag is true after it; when the call returns, with
\* an analysis or without, the flag of the modal that made it is false.
C17_AnalyzingTracksRequest ==
    /\ [](modal.result # NoResult =>
             /\ modal.analyzing <=> CallsOfModal # {}
             /\ Cardinality(CallsOfModal) <= 1)
    /\ [][ /\ Len(ai'.calls) > Len(ai.calls) =>
                 /\ modal.result # NoResult
                 /\ IsAiAvailable(ai.apiKey)
                 /\ ~modal.analyzing /\ modal'.analyzing
                 /\ ai'.calls[Len(ai'.calls)].mount = modal.mounts
           /\ (/\ modal'.mounts = modal.mounts
               /\ CallsOfModal # {}
               /\ \A i \in DOMAIN ai'.calls : ai'.calls[i].mount # modal.mounts) =>
                 ~modal'.analyzing
         ]_vars

\* Two modals, one call each: the first modal was closed with its call in
\* flight, the second was opened on another result and started its own
C17_Witness ==
    /\ modal.result # NoResult
    /\ modal.mounts = 2
    /\ modal.analyzing
    /\ Len(ai.calls) = 2
    /\ ai.calls[1].mount = 1 /\ ai.calls[2].mount = 2
    /\ ai.calls[1].result.id # ai.calls[2].result.id

\* C18: whenever the content type is wifi, the string to encode is
\* WIFI:T:<enc>;S:<ssid>;P:<password>;H:<hidden>;; for a non-empty ssid, with
\* <enc> the encryption value, or nothing for nopass, and <hidden> true or
\* false; it is empty for an empty ssid.
C18_WifiTemplate ==
    (tpl.phase = "mounted" /\ tpl.contentType = "wifi") =>
        LET w == tpl.wifiData
            enc == IF w.encryption = <<"n", "o", "p", "a", "s", "s">> THEN EmptyString ELSE w.encryption
            hidden == IF w.hidden THEN <<"t", "r", "u", "e">> ELSE <<"f", "a", "l", "s", "e">>
        IN  /\ w.ssid # EmptyString =>
                tpl.text = <<"W", "I", "F", "I", ":", "T", ":">> \o enc \o <<";", "S", ":">> \o w.ssid \o <<";", "P", ":">> \o w.password
                               \o <<";", "H", ":">> \o hidden \o <<";", ";">>
            /\ w.ssid = EmptyString => tpl.text = EmptyString

\* An open network with a ssid and a password typed
C18_Witness ==
    /\ tpl.phase = "mounted" /\ tpl.contentType = "wifi"
    /\ tpl.wifiData.ssid = <<"H", "o", "m", "e">>
    /\ tpl.wifiData.password = <<"s", "e", "c", "r", "e", "t", "1">>
    /\ tpl.wifiData.encryption = <<"n", "o", "p", "a", "s", "s">>
    /\ tpl.text = <<"W", "I", "F", "I", ":", "T", ":", ";", "S", ":", "H", "o", "m", "e", ";", "P", ":", "s", "e", "c", "r", "e", "t", "1", ";", "H", ":", "f", "a", "l", "s", "e", ";", ";">>

\* C19: whenever the content type is email, the string to encode is
\* mailto:<address>?subject=<url-encoded subject>&body=<url-encoded body>
\* for a non-empty address, the address as typed; it is empty for an empty
\* address.
C19_EmailTemplate ==
    (tpl.phase = "mounted" /\ tpl.contentType = "email") =>
        LET e == tpl.emailData
        IN  /\ e.email # EmptyString =>
                tpl.text = <<"m", "a", "i", "l", "t", "o", ":">> \o e.email
                               \o <<"?", "s", "u", "b", "j", "e", "c", "t", "=">> \o EncodeURIComponent(e.subject)
                               \o <<"&", "b", "o", "d", "y", "=">> \o EncodeURIComponent(e.body)
            /\ e.email = EmptyString => tpl.text = EmptyString

\* An address typed in the email form
C19_Witness ==
    /\ tpl.phase = "mounted" /\ tpl.contentType = "email"
    /\ tpl.emailData.email = <<"a", "@", "b", ".", "c", "o", "m">>
    /\ tpl.text = <<"m", "a", "i", "l", "t", "o", ":", "a", "@", "b", ".", "c", "o", "m", "?", "s", "u", "b", "j", "e", "c", "t", "=", "&", "b", "o", "d", "y", "=">>

\* C20: once a code was detected in a camera frame and until the user
\* resumes, onScan has been called exactly once, no further frame has been
\* decoded, and scanning is paused as soon as the re-render is applied,
\* whatever the order of animation frames and re-render.
C20_OneScanPerDetection ==
    (scanner.phase = "mounted" /\ scanner.detected) =>
        /\ scanner.onScanCalls = 1
        /\ scanner.decodedAfter = 0
        /\ ~scanner.pausePending => ~scanner.isScanning

\* C21: whenever the scanner tab is inactive or scanning is paused, no
\* camera stream is held open: streamRef holds none and every stream that
\* was delivered has had its tracks stopped, also when a start requested
\* earlier resolves after the deactivation.
C21_NoStreamWhileInactive ==
    (scanner.phase = "camera" /\ (~scanner.isActive \/ ~scanner.isScanning)) =>
        /\ scanner.streamRef = NoStream
        /\ scanner.live = {}

\* A step of handleScan: it takes the next id
HandleScanStep == app.phase = "mounted" /\ app'.nextId = app.nextId + 1

\* C22: handleScan leaves the history as it is when its head has the same
\* data and was recorded less than 2000 ms before; otherwise the history
\* after it is one new entry, with the scanned data, followed by the
\* entries it held, unchanged and in order.
C22_DuplicateWindow ==
    [][HandleScanStep =>
         LET prev == app.scannedHistory
             data == app'.currentResult.data
             recent == /\ Len(prev) > 0
                       /\ prev[1].data = data
                       /\ app.now * AppClockMs - prev[1].timestamp * AppClockMs
                              < DuplicateWindowMs
         IN  IF recent
             THEN app'.scannedHistory = prev
             ELSE /\ Len(app'.scannedHistory) = Len(prev) + 1
                  /\ app'.scannedHistory[1].data = data
                  /\ app'.scannedHistory[1].id = app.nextId
                  /\ \A i \in DOMAIN prev : app'.scannedHistory[i + 1] = prev[i]
      ]_vars

\* A second scan of the same data exactly 2000 ms after the first: two
\* entries
C22_Witness ==
    /\ app.phase = "mounted"
    /\ Len(app.scannedHistory) = 2
    /\ app.scannedHistory[1].data = app.scannedHistory[2].data
    /\ (app.scannedHistory[1].timestamp - app.scannedHistory[2].timestamp) * AppClockMs
           = DuplicateWindowMs
    /\ app.scannedHistory[1].id > 0 /\ app.scannedHistory[2].id > 0

\* C23: while App runs, the 'qr-scans' entry of local storage is the scan
\* history with originalImage removed from every item, and so no stored
\* item has an originalImage; the 'qr-gen' entry is the generated history;
\* and the mount leaves in state the histories that were stored before it.
C23_StorageMirrorsHistory ==
    /\ app.phase \in {"mounted", "crashed"} =>
          LET scans == app.storage["qr-scans"].items
              gen == app.storage["qr-gen"].items
          IN  /\ Len(scans) = Len(app.scannedHistory)
              /\ \A i \in DOMAIN scans :
                    /\ DOMAIN scans[i] = DOMAIN app.scannedHistory[i] \ {"originalImage"}
                    /\ \A f \in DOMAIN scans[i] : scans[i][f] = app.scannedHistory[i][f]
              /\ gen = app.generatedHistory
    /\ (app.phase = "mounted" /\ app.nextId = 1 /\ app.nextGenId = 1
            /\ Len(app.scannedHistory) = Len(app.loaded["qr-scans"].items)
            /\ Len(app.generatedHistory) = Len(app.loaded["qr-gen"].items)) =>
          /\ app.scannedHistory = app.loaded["qr-scans"].items
          /\ app.generatedHistory = app.loaded["qr-gen"].items

\* A step of updateScanResult: the result shown gets its summary
UpdateScanResultStep ==
    /\ app.phase = "mounted"
    /\ app.currentResult # NoCurrentResult
    /\ app'.currentResult # NoCurrentResult
    /\ app'.currentResult.id = app.currentResult.id
    /\ ~app.currentResult.aiSummary /\ app'.currentResult.aiSummary

\* C28: after handleScan the result shown is an entry of the scan history
\* with the same id, and updateScanResult records the summary of the result
\* shown on the entry with its id and changes no other entry.
C28_ShownResultIsInHistory ==
    [][ /\ HandleScanStep =>
              \E i \in DOMAIN app'.scannedHistory :
                  app'.scannedHistory[i].id = app'.currentResult.id
        /\ UpdateScanResultStep =>
              /\ \E i \in DOMAIN app'.scannedHistory :
                    /\ app'.scannedHistory[i].id = app.currentResult.id
                    /\ app'.scannedHistory[i].aiSummary
              /\ \A i \in DOMAIN app.scannedHistory :
                    app.scannedHistory[i].id # app.currentResult.id =>
                        app'.scannedHistory[i] = app.scannedHistory[i]
      ]_vars

\* A step in which a list of the History view is emptied
ScansCleared == Len(app.scannedHistory) > 0 /\ Len(app'.scannedHistory) = 0
GeneratedCleared == Len(app.generatedHistory) > 0 /\ Len(app'.generatedHistory) = 0

\* C24: a list is emptied only when the user asked to clear and has since
\* neither changed the tab nor answered; the list emptied is the one of the
\* tab selected at the confirmation and the other list stays as it is; a
\* confirmation is pending only while such a request is; a change of the
\* tab and the answer No leave none pending.
C24_ClearNeedsConfirmation ==
    /\ [](app.phase = "mounted" => (app.isConfirmingClear => app.requested))
    /\ [][ app.phase = "mounted" =>
             /\ (ScansCleared \/ GeneratedCleared) =>
                   /\ app.requested /\ app.isConfirmingClear
                   /\ ~app'.isConfirmingClear
                   /\ app'.filter = app.filter
             /\ ScansCleared =>
                   app.filter = "scans" /\ app'.generatedHistory = app.generatedHistory
             /\ GeneratedCleared =>
                   app.filter = "generated" /\ app'.scannedHistory = app.scannedHistory
             /\ (app'.filter # app.filter \/ app'.activeTab # app.activeTab) =>
                   ~app'.isConfirmingClear
             /\ (app.isConfirmingClear /\ ~app'.isConfirmingClear) =>
                   \/ ScansCleared \/ GeneratedCleared
                   \/ /\ app'.scannedHistory = app.scannedHistory
                      /\ app'.generatedHistory = app.generatedHistory
         ]_vars

\* The generated list was cleared, from its tab, and the scans are all there
C24_Witness ==
    /\ app.phase = "mounted"
    /\ app.activeTab = "history" /\ app.filter = "generated"
    /\ app.generatedHistory = <<>> /\ Len(app.loaded["qr-gen"].items) > 0
    /\ app.storage["qr-gen"].items = <<>>
    /\ Len(app.scannedHistory) > 0
    /\ ~app.isConfirmingClear

\* C25: whenever a logo is attached the error-correction level is Q or H,
\* whatever the user did to the level while the file was being read.
C25_LogoImpliesHighLevel ==
    cfg.logo # NoLogo => cfg.errorLevel \in {"Q", "H"}

\* C26: for every module count N = 17 + 4v of the encoder, v in 1..40, and a
\* logo attached, the exclusion square stays clear of the 7x7 finder zones:
\* logoStart >= 7 and logoEnd <= N - 7.
C26_ZoneClearOfFinders ==
    (plan.phase = "planned" /\ plan.in.logo # NoLogo) =>
        /\ plan.g.logoStart >= 7
        /\ plan.g.logoEnd <= plan.g.moduleCount - 7

\* Version 1, the tight case: the square is rows and columns 7..13 of 21,
\* touching the finder zones 0..6 and 14..20 without entering them
C26_Witness ==
    /\ plan.phase = "planned"
    /\ plan.in.logo # NoLogo
    /\ plan.g.moduleCount = 21
    /\ plan.g.logoStart = 7 /\ plan.g.logoEnd = 14

\* handleDownload has appended a record to the generated history
HandleDownloadStep ==
    Len(app'.generatedHistory) = Len(app.generatedHistory) + 1

\* C27: the record handleDownload appends pairs an image with the text it
\* encodes: its base64 is a published image that encodes its data, at the
\* level, with the logo and with the label of the configuration in force at
\* the download, also when the text was edited less than 300 ms before or
\* the latest render failed; without a published image no record is added.
C27_DownloadPairsImageWithText ==
    [][ /\ HandleDownloadStep =>
            LET item == Head(app'.generatedHistory)
            IN  /\ item.data = cfg.text
                /\ item.base64.kind = "png"
                /\ item.base64.text = item.data
                /\ item.base64.level = cfg.errorLevel
                /\ item.base64.logo = cfg.logo
                /\ item.base64.label = cfg.labelText
        /\ generatedBase64 = EmptyImage =>
            app'.generatedHistory = app.generatedHistory
      ]_vars

====
